---- MODULE Spec2Model ----
(***************************************************************************)
(* A model of photoflow.py: the two-pass geotag pipeline, duplicate and    *)
(* conflict detection, the two file relocators and the phase scans.        *)
(*                                                                         *)
(* A path is a sequence of components (pathlib's parts).  A file system is *)
(* a record [at, dirs]: at[f] is the path of file f (or Gone once another  *)
(* file was moved over it), dirs the set of existing directories.          *)
(* Each phase has its own variables and its own specification; a           *)
(* specification leaves the variables of the other phases untouched.       *)
(***************************************************************************)
EXTENDS Integers, Sequences, FiniteSets, TLC

\* ------------------------------------------------------------------ bounds
\* Number of files in the tree handle_dedup scans.
MaxDedupFiles == 3
\* Number of files under by-date when handle_geotag starts.
MaxGeoFiles == 3
\* Files per tag-read call of _get_files_without_gps (100 in the source,
\* scaled down so that a run of MaxGeoFiles files spans several chunks).
ChunkSize == 2
\* Number of files of one base name handed to the relocators.
MaxMoveFiles == 2
\* Number of files in the tree the phase scans walk.
MaxScanFiles == 2
\* Number of files in the tree handle_timeshift is run on.
MaxShiftFiles == 2
\* Number of files in the tree handle_pair_jpegs is run on.
MaxPairFiles == 3
\* Number of calls of _move_file_robustly that run at the same time.
MaxRacers == 2

\* ------------------------------------------------------------------- state
\* handle_dedup
VARIABLES
    dfs,             \* the file system: [at, dirs]
    dfs0,            \* the file system when handle_dedup was called
    content,         \* content[f]: the bytes of file f
    ddry_run,        \* args.dry_run
    dpc,             \* the position of handle_dedup
    file_data,       \* line 226: the records, in the order of the scan
    dup_log,         \* lines 149-156: one entry per duplicate, in loop order
    report_content,  \* lines 175-184: the entries of the conflict report
    report_file,     \* what is in the report file, NoReport when there is none
    report_file0,    \* the report file when handle_dedup was called
    checksum_algo,   \* line 222: config["dedup"]["checksum_algorithm"]
    hash_fails,      \* lines 116-124: the scanned files without a record
    run              \* the number of the call of handle_dedup: 1 or 2

dedupVars == <<dfs, dfs0, content, ddry_run, dpc, file_data, dup_log,
               report_content, report_file, report_file0, checksum_algo,
               hash_fails, run>>

\* handle_geotag
VARIABLES
    gfs,                    \* the file system: [at, dirs]
    gps,                    \* gps[f]: file f carries a GPS latitude tag
    gdry_run,               \* args.dry_run
    gargs,                  \* args: [gpx_dir, timezone]
    gpc,                    \* the position of handle_geotag
    all_files,              \* line 699
    already_tagged,         \* line 706
    files_to_geotag_pass1,  \* line 706
    files_for_pass2,        \* line 739
    files_in_last_gps,      \* line 743
    final_failures,         \* line 779
    pass1_call,             \* the pass-1 write call: [made, raised, batch]
    pass2_call,             \* the pass-2 write call: [made, raised, batch]
    final_requery,          \* the paths handed to the query of line 779
    moved,                  \* the files some move of this run relocated
    oracle_down             \* some query of this run could not start the oracle

geoVars == <<gfs, gps, gdry_run, gargs, gpc, all_files, already_tagged,
             files_to_geotag_pass1, files_for_pass2, files_in_last_gps,
             final_failures, pass1_call, pass2_call, final_requery, moved,
             oracle_down>>

\* calls of _move_file_robustly and _move_file_preserving_structure
VARIABLES
    rfs,         \* the file system: [at, dirs]
    rname,       \* the base name of the files that are relocated
    sources,     \* the files that are relocated
    came_from,   \* came_from[f]: where the last structure-preserving move into
                 \* the holding root took f from, None when there was none
    last_call    \* the last call: [op, f, source_path, dry_run, ret, dry_ret]

relocVars == <<rfs, rname, sources, came_from, last_call>>

\* the scans of the phases
VARIABLES
    sfs,         \* the file system: [at, dirs]
    scan,        \* the scan that was made, "none" before it
    candidates   \* the paths the scan lists (the order of the list is left out)

scanVars == <<sfs, scan, candidates>>

\* handle_timeshift
VARIABLES
    tfs,                \* the file system: [at, dirs]
    tfs0,               \* the file system when handle_timeshift was called
    targs,              \* args: [offset, days, hours, minutes, seconds]
    tdry_run,           \* args.dry_run
    tpc,                \* the position of handle_timeshift
    tret,               \* what handle_timeshift returned: "1", "0" or "None"
    files_to_process,   \* line 365
    next_file,          \* the index of the loop of line 384
    updated_count,      \* line 378
    no_tags_count,      \* line 378
    error_count,        \* line 378
    originals_moved_count,  \* line 413
    tally,              \* tally[i]: how often files_to_process[i] was counted
    shifted,            \* the files whose timestamps the oracle rewrote
    oracle_started,     \* "no" before line 383, then "yes" or "failed"
    oracle_calls        \* the paths handed to et.execute

shiftVars == <<tfs, tfs0, targs, tdry_run, tpc, tret, files_to_process, next_file,
               updated_count, no_tags_count, error_count, originals_moved_count,
               tally, shifted, oracle_started, oracle_calls>>

\* handle_pair_jpegs
VARIABLES
    pfs,                  \* the file system: [at, dirs]
    pfs0,                 \* the file system when handle_pair_jpegs was called
    ptags,                \* ptags[f]: the two tags of file f, as the oracle reads them
    pdry_run,             \* args.dry_run
    ppc,                  \* the position of handle_pair_jpegs
    raw_files,            \* lines 464-470
    next_raw,             \* the position of the loop of line 479
    pair_calls,           \* the calls of et.get_tags, in order: [raw, jpg, outcome]
    pairs_found_by_name,  \* line 474
    pairs_verified,       \* line 474
    jpgs_moved            \* line 474

pairVars == <<pfs, pfs0, ptags, pdry_run, ppc, raw_files, next_raw, pair_calls,
              pairs_found_by_name, pairs_verified, jpgs_moved>>

\* calls of _move_file_robustly that run at the same time
VARIABLES
    qfs,          \* the file system: [at, dirs]
    qname,        \* the base name of the files
    callers,      \* the calls: call p moves file p
    locking,      \* TRUE when the callers take a lock around the call
    lock,         \* the call that holds the lock, 0 when it is free
    qpc,          \* qpc[p]: the position of call p
    qdest,        \* qdest[p]: destination_path of call p after the loop of line 276
    qret          \* qret[p]: what call p returned

raceVars == <<qfs, qname, callers, locking, lock, qpc, qdest, qret>>

vars == <<dedupVars, geoVars, relocVars, scanVars, shiftVars, pairVars, raceVars>>

\* What a step of one phase leaves alone: the variables of the other phases.
notDedup == <<geoVars, relocVars, scanVars, shiftVars, pairVars, raceVars>>
notGeotag == <<dedupVars, relocVars, scanVars, shiftVars, pairVars, raceVars>>
notReloc == <<dedupVars, geoVars, scanVars, shiftVars, pairVars, raceVars>>
notScan == <<dedupVars, geoVars, relocVars, shiftVars, pairVars, raceVars>>
notTimeshift == <<dedupVars, geoVars, relocVars, scanVars, pairVars, raceVars>>
notPair == <<dedupVars, geoVars, relocVars, scanVars, shiftVars, raceVars>>
notRace == <<dedupVars, geoVars, relocVars, scanVars, shiftVars, pairVars>>

\* ----------------------------------------------------------- paths, files
\* A function's "no path" result, and the place of a file that was overwritten.
\* Both are path-shaped so that they compare with paths; no real path equals them.
None == <<"(none)">>
Gone == <<"(gone)">>

IsPrefix(p, q) == Len(p) <= Len(q) /\ SubSeq(q, 1, Len(p)) = p

\* path is dir or lies below it
Under(path, dir) == IsPrefix(dir, path)

\* PurePath.relative_to: the part of path below base, None for the ValueError.
RelativeTo(path, base) ==
    IF IsPrefix(base, path) THEN SubSeq(path, Len(base) + 1, Len(path)) ELSE None

\* PurePath.parent
Parent(path) == IF Len(path) = 0 THEN path ELSE SubSeq(path, 1, Len(path) - 1)

\* Path.is_file
IsFile(fs, path) == \E f \in DOMAIN fs.at : fs.at[f] = path

\* Path.exists: a file or a directory
Exists(fs, path) == IsFile(fs, path) \/ path \in fs.dirs

FileAt(fs, path) == CHOOSE f \in DOMAIN fs.at : fs.at[f] = path

\* Path.mkdir(parents=True, exist_ok=True)
MkdirParents(fs, dir) ==
    [fs EXCEPT !.dirs = @ \cup {SubSeq(dir, 1, k) : k \in 0..Len(dir)}]

\* shutil.move(source, destination) once it succeeds: the file that was at
\* destination is replaced.
ShutilMove(fs, source, destination) ==
    LET f == FileAt(fs, source)
    IN [fs EXCEPT !.at = [g \in DOMAIN fs.at |->
            IF g = f THEN destination
            ELSE IF fs.at[g] = destination THEN Gone
            ELSE fs.at[g]]]

\* What the operating system does to one move: it works, the directory
\* creation raises OSError, or the move itself raises OSError.
OsOutcomes == {"ok", "mkdir_fails", "move_fails"}

\* ------------------------------------------- _move_file_preserving_structure
\* A relocator that would drop the relative path: dest_root / source_path.name.
MoveFilePreservingStructure_Flat(fs, source_path, dest_root, base_dir, dry_run, os) ==
    IF ~IsFile(fs, source_path) THEN [ret |-> None, fs |-> fs]
    ELSE LET destination_path == dest_root \o <<source_path[Len(source_path)]>>
         IN IF dry_run THEN [ret |-> destination_path, fs |-> fs]
            ELSE IF os = "mkdir_fails" THEN [ret |-> None, fs |-> fs]
            ELSE IF os = "move_fails"
                 THEN [ret |-> None, fs |-> MkdirParents(fs, Parent(destination_path))]
            ELSE [ret |-> destination_path,
                  fs |-> ShutilMove(MkdirParents(fs, Parent(destination_path)),
                                    source_path, destination_path)]

\* Lines 235-261: the destination is dest_root / source_path.relative_to(base_dir).
MoveFilePreservingStructure(fs, source_path, dest_root, base_dir, dry_run, os) ==
    IF ~IsFile(fs, source_path) THEN [ret |-> None, fs |-> fs]
    ELSE LET relative_path == RelativeTo(source_path, base_dir)
         IN IF relative_path = None THEN [ret |-> None, fs |-> fs]
            ELSE LET destination_path == dest_root \o relative_path
                 IN IF dry_run THEN [ret |-> destination_path, fs |-> fs]
                    ELSE IF os = "mkdir_fails" THEN [ret |-> None, fs |-> fs]
                    ELSE IF os = "move_fails"
                         THEN [ret |-> None,
                               fs |-> MkdirParents(fs, Parent(destination_path))]
                    ELSE [ret |-> destination_path,
                          fs |-> ShutilMove(MkdirParents(fs, Parent(destination_path)),
                                            source_path, destination_path)]

\* ------------------------------------------------------------------ strings
\* A string is a sequence of one-character strings.  Characters compare by
\* code point; Alphabet lists the characters of the model in that order.
Alphabet == <<"-", ".", "0", "1", "2", "3", "4", "5", "6", "7", "8", "9",
              "_", "a", "b", "h", "j", "t", "w", "x", "y">>

Ord(c) == CHOOSE i \in DOMAIN Alphabet : Alphabet[i] = c

\* s < t for Python strings
RECURSIVE StrLess(_, _)
StrLess(s, t) ==
    IF t = <<>> THEN FALSE
    ELSE IF s = <<>> THEN TRUE
    ELSE IF s[1] # t[1] THEN Ord(s[1]) < Ord(t[1])
    ELSE StrLess(Tail(s), Tail(t))

\* p < q for pathlib paths: the lists of components compare, component by
\* component (PurePath.__lt__).
RECURSIVE PathLess(_, _)
PathLess(p, q) ==
    IF q = <<>> THEN FALSE
    ELSE IF p = <<>> THEN TRUE
    ELSE IF p[1] # q[1] THEN StrLess(p[1], q[1])
    ELSE PathLess(Tail(p), Tail(q))

\* str.lstrip(".")
RECURSIVE LStripDots(_)
LStripDots(s) == IF s # <<>> /\ s[1] = "." THEN LStripDots(Tail(s)) ELSE s

\* "".join(Path(name).suffixes): nothing for a name that ends with a dot;
\* otherwise the name without its leading dots, from its first dot on.
JoinedSuffixes(name) ==
    IF name = <<>> \/ name[Len(name)] = "." THEN <<>>
    ELSE LET t == LStripDots(name)
             dots == {i \in DOMAIN t : t[i] = "."}
         IN IF dots = {} THEN <<>>
            ELSE SubSeq(t, CHOOSE i \in dots : \A j \in dots : i <= j, Len(t))

\* str.replace(old, new): every occurrence, left to right, not overlapping.
RECURSIVE StrReplace(_, _, _)
StrReplace(s, old, new) ==
    IF old = <<>>
    THEN (IF s = <<>> THEN new ELSE new \o <<s[1]>> \o StrReplace(Tail(s), old, new))
    ELSE IF Len(s) < Len(old) THEN s
    ELSE IF SubSeq(s, 1, Len(old)) = old
         THEN new \o StrReplace(SubSeq(s, Len(old) + 1, Len(s)), old, new)
    ELSE <<s[1]>> \o StrReplace(Tail(s), old, new)

\* str(n) for n >= 0
RECURSIVE Decimal(_)
Decimal(n) == IF n < 10 THEN <<ToString(n)>> ELSE Decimal(n \div 10) \o <<ToString(n % 10)>>

\* f"{counter:02d}"
Format02d(counter) == IF counter < 10 THEN <<"0">> \o Decimal(counter) ELSE Decimal(counter)

\* \d of a pattern, on the characters of the model
Digits == {"0", "1", "2", "3", "4", "5", "6", "7", "8", "9"}

\* $ of a Python pattern: the end of the string, or the newline that ends it
AtEnd(s, i) == i = Len(s) + 1 \/ (i = Len(s) /\ s[i] = "\n")

\* ----------------------------------------------------- _move_file_robustly
\* Lines 278-280: the file name tried for a counter value.
NewFilename(base_name, counter) ==
    LET extension == JoinedSuffixes(base_name)
        stem == StrReplace(base_name, extension, <<>>)
    IN stem \o <<"-">> \o Format02d(counter) \o extension

\* A relocator without the loop of lines 276-281: the first destination,
\* whether it exists or not.
FreeDestination_Unchecked(fs, target_dir, base_name, destination_path, counter) ==
    destination_path

\* Lines 275-281: the first destination that does not exist, from `counter` on.
RECURSIVE FreeDestination(_, _, _, _, _)
FreeDestination(fs, target_dir, base_name, destination_path, counter) ==
    IF ~Exists(fs, destination_path) THEN destination_path
    ELSE FreeDestination(fs, target_dir, base_name,
                         target_dir \o <<NewFilename(base_name, counter + 1)>>,
                         counter + 1)

\* new_base_name is None when the caller gives none.  The move raises OSError
\* when the operating system says so, and always when target_dir is missing.
MoveFileRobustly(fs, source_path, target_dir, dry_run, new_base_name, os) ==
    IF ~IsFile(fs, source_path) THEN [ret |-> None, fs |-> fs]
    ELSE LET base_name == IF new_base_name # None /\ new_base_name # <<>>
                          THEN new_base_name ELSE source_path[Len(source_path)]
             first == target_dir \o <<base_name>>
         IN IF dry_run THEN [ret |-> first, fs |-> fs]
            ELSE LET destination_path ==
                         FreeDestination(fs, target_dir, base_name, first, 0)
                 IN IF os # "ok" \/ target_dir \notin fs.dirs
                    THEN [ret |-> None, fs |-> fs]
                    ELSE [ret |-> destination_path,
                          fs |-> ShutilMove(fs, source_path, destination_path)]

\* ======================================================================
\* Phase 5: handle_geotag
\* ======================================================================

cwd == <<>>
target_dir == cwd \o <<"by-date">>
last_gps_dir == cwd \o <<"last-gps">>
no_gps_dir == cwd \o <<"no-gps">>

NoCall == [made |-> FALSE, raised |-> FALSE, batch |-> <<>>]

Range(s) == {s[i] : i \in DOMAIN s}

\* The chunks a tag read of n files is split into, numbered from 0.
Chunks(n) == 0..((n + ChunkSize - 1) \div ChunkSize - 1)

\* _get_files_without_gps.  The oracle answers truthfully for every chunk it
\* answers at all; a chunk in failedChunks, or one that names a path where no
\* file is, raises and is skipped (lines 657-658); startFails is the oracle
\* not starting (lines 661-664).  The result is <<with GPS, without GPS>>.
GetFilesWithoutGps(files_to_check, fs, tags, startFails, failedChunks) ==
    LET n == Len(files_to_check)
        ChunkOf(i) == (i - 1) \div ChunkSize
        Raises(c) == \/ c \in failedChunks
                     \/ \E i \in 1..n : ChunkOf(i) = c /\ ~IsFile(fs, files_to_check[i])
        HasGps(path) == tags[FileAt(fs, path)]
        RECURSIVE Collect(_, _)
        Collect(i, want) ==
            IF i > n THEN <<>>
            ELSE (IF ~Raises(ChunkOf(i)) /\ HasGps(files_to_check[i]) = want
                  THEN <<files_to_check[i]>> ELSE <<>>) \o Collect(i + 1, want)
    IN IF n = 0 THEN <<<<>>, <<>>>>
       ELSE IF startFails THEN <<files_to_check, <<>>>>
       ELSE <<Collect(1, TRUE), Collect(1, FALSE)>>

\* The geotag write call (lines 724-726, 760-766): the oracle tags the files
\* of `tagged`, whether or not the call then raises.
ApplyGeotag(fs, tags, tagged) ==
    [f \in DOMAIN tags |-> tags[f] \/ (fs.at[f] \in tagged)]

\* The move loops of lines 744-748 and 783-785: every path of `files` in
\* turn, os[i] being what the operating system does to the i-th move.
\* The result is [fs, kept]: kept are the paths the relocator returned.
RECURSIVE MoveAll(_, _, _, _, _, _, _)
MoveAll(files, i, fs, dest_root, base_dir, dry_run, os) ==
    IF i > Len(files) THEN [fs |-> fs, kept |-> <<>>]
    ELSE LET r == MoveFilePreservingStructure(fs, files[i], dest_root, base_dir,
                                              dry_run, os[i])
             rest == MoveAll(files, i + 1, r.fs, dest_root, base_dir, dry_run, os)
         IN [fs |-> rest.fs,
             kept |-> (IF r.ret # None THEN <<r.ret>> ELSE <<>>) \o rest.kept]

\* A pass-2 batch that would take both lists of the re-query.
FilesForPass2_All(result) == result[1] \o result[2]

\* `_, files_for_pass2 = _get_files_without_gps(files_to_geotag_pass1)` (line 739)
FilesForPass2(result) == result[2]

\* Line 683: ^[+-]\d{2}:\d{2}$
TimezonePatternMatches(s) ==
    /\ Len(s) >= 6
    /\ s[1] \in {"+", "-"}
    /\ s[2] \in Digits /\ s[3] \in Digits
    /\ s[4] = ":"
    /\ s[5] \in Digits /\ s[6] \in Digits
    /\ AtEnd(s, 7)

gpx_dir == cwd \o <<"gpx">>

\* The arguments handle_geotag is called with: the GPX directory and a
\* timezone, of the right form (+02:00) or not (02:00, +2:00, +02:0x, and
\* +02:00 followed by a newline).
GeotagArgs ==
    [gpx_dir : {gpx_dir},
     timezone : {<<"+", "0", "2", ":", "0", "0">>, <<"0", "2", ":", "0", "0">>,
                 <<"+", "2", ":", "0", "0">>, <<"+", "0", "2", ":", "0", "x">>,
                 <<"+", "0", "2", ":", "0", "0", "\n">>}]

\* The state when handle_geotag is called: there may be a GPX directory, and
\* there may be by-date, with n files, each with or without a GPS tag.
InitGeotag ==
    /\ \E n \in 0..MaxGeoFiles :
       \E has_gpx \in BOOLEAN :
       \E has_by_date \in BOOLEAN :
         /\ ~has_by_date => n = 0
         /\ gfs = [at |-> [f \in 1..n |-> target_dir \o <<"2023-10-27", ToString(f)>>],
                   dirs |-> {cwd}
                     \cup (IF has_gpx THEN {gpx_dir} ELSE {})
                     \cup (IF has_by_date
                           THEN {target_dir, target_dir \o <<"2023-10-27">>} ELSE {})]
    /\ gps \in [DOMAIN gfs.at -> BOOLEAN]
    /\ gdry_run \in BOOLEAN
    /\ gargs \in GeotagArgs
    /\ gpc = "preflight"
    /\ all_files = <<>>
    /\ already_tagged = <<>>
    /\ files_to_geotag_pass1 = <<>>
    /\ files_for_pass2 = <<>>
    /\ files_in_last_gps = <<>>
    /\ final_failures = <<>>
    /\ pass1_call = NoCall
    /\ pass2_call = NoCall
    /\ final_requery = <<>>
    /\ moved = {}
    /\ oracle_down = FALSE

\* Lines 677-691: the checks of the arguments; handle_geotag returns 1
\* ("rejected") when one of them fails.
GeotagPreflight ==
    /\ gpc = "preflight"
    /\ UNCHANGED notGeotag
    /\ gpc' = IF gargs.gpx_dir \notin gfs.dirs THEN "rejected"
              ELSE IF ~TimezonePatternMatches(gargs.timezone) THEN "rejected"
              ELSE IF target_dir \notin gfs.dirs THEN "rejected"
              ELSE "start"
    /\ UNCHANGED <<gfs, gps, gdry_run, gargs, all_files, already_tagged,
                   files_to_geotag_pass1, files_for_pass2, files_in_last_gps,
                   final_failures, pass1_call, pass2_call, final_requery, moved,
                   oracle_down>>

\* Lines 693-712: the two directories, the file list, the initial GPS query.
GeotagInitialScan ==
    /\ gpc = "start"
    /\ UNCHANGED notGeotag
    /\ \E startFails \in BOOLEAN :
       \E failedChunks \in SUBSET Chunks(Cardinality(DOMAIN gfs.at)) :
         LET fs1 == IF gdry_run THEN gfs
                    ELSE [gfs EXCEPT !.dirs = @ \cup {last_gps_dir, no_gps_dir}]
             files == [f \in DOMAIN gfs.at |-> gfs.at[f]]
             result == GetFilesWithoutGps(files, fs1, gps, startFails, failedChunks)
         IN /\ gfs' = fs1
            /\ all_files' = files
            /\ already_tagged' = result[1]
            /\ files_to_geotag_pass1' = result[2]
            /\ gpc' = IF files = <<>> \/ result[2] = <<>> THEN "done" ELSE "pass1"
            /\ oracle_down' = (startFails /\ files # <<>>)
    /\ UNCHANGED <<gps, gdry_run, gargs, files_for_pass2, files_in_last_gps, final_failures,
                   pass1_call, pass2_call, final_requery, moved>>

\* Lines 721-735: the pass-1 write call, skipped in a dry run.
GeotagPass1 ==
    /\ gpc = "pass1"
    /\ UNCHANGED notGeotag
    /\ IF gdry_run
       THEN UNCHANGED <<gps, pass1_call>>
       ELSE \E tagged \in SUBSET Range(files_to_geotag_pass1) :
            \E raised \in BOOLEAN :
              /\ gps' = ApplyGeotag(gfs, gps, tagged)
              /\ pass1_call' = [made |-> TRUE, raised |-> raised,
                                batch |-> files_to_geotag_pass1]
    /\ gpc' = "requery1"
    /\ UNCHANGED <<gfs, gdry_run, gargs, all_files, already_tagged, files_to_geotag_pass1,
                   files_for_pass2, files_in_last_gps, final_failures, pass2_call,
                   final_requery, moved, oracle_down>>

\* Lines 739-751: the re-query and the move into last-gps.
GeotagMoveToLastGps ==
    /\ gpc = "requery1"
    /\ UNCHANGED notGeotag
    /\ \E startFails \in BOOLEAN :
       \E failedChunks \in SUBSET Chunks(Len(files_to_geotag_pass1)) :
         LET pass2 == FilesForPass2(GetFilesWithoutGps(files_to_geotag_pass1, gfs, gps,
                                                       startFails, failedChunks))
         IN \E os \in [1..Len(pass2) -> OsOutcomes] :
              LET r == MoveAll(pass2, 1, gfs, last_gps_dir, Parent(target_dir),
                               gdry_run, os)
              IN /\ files_for_pass2' = pass2
                 /\ files_in_last_gps' = r.kept
                 /\ gfs' = r.fs
                 /\ moved' = moved \cup {f \in DOMAIN gfs.at : r.fs.at[f] # gfs.at[f]}
                 /\ oracle_down' = (oracle_down \/ startFails)
    /\ gpc' = "pass2"
    /\ UNCHANGED <<gps, gdry_run, gargs, all_files, already_tagged, files_to_geotag_pass1,
                   final_failures, pass1_call, pass2_call, final_requery>>

\* Lines 754-775: the pass-2 write call, made for a non-empty batch outside
\* a dry run.
GeotagPass2 ==
    /\ gpc = "pass2"
    /\ UNCHANGED notGeotag
    /\ IF files_in_last_gps = <<>> \/ gdry_run
       THEN UNCHANGED <<gps, pass2_call>>
       ELSE \E tagged \in SUBSET Range(files_in_last_gps) :
            \E raised \in BOOLEAN :
              /\ gps' = ApplyGeotag(gfs, gps, tagged)
              /\ pass2_call' = [made |-> TRUE, raised |-> raised,
                                batch |-> files_in_last_gps]
    /\ gpc' = "requery2"
    /\ UNCHANGED <<gfs, gdry_run, gargs, all_files, already_tagged, files_to_geotag_pass1,
                   files_for_pass2, files_in_last_gps, final_failures, pass1_call,
                   final_requery, moved, oracle_down>>

\* Lines 778-794: the final query and the move into no-gps.
GeotagMoveToNoGps ==
    /\ gpc = "requery2"
    /\ UNCHANGED notGeotag
    /\ \E startFails \in BOOLEAN :
       \E failedChunks \in SUBSET Chunks(Len(files_in_last_gps)) :
         LET failures == GetFilesWithoutGps(files_in_last_gps, gfs, gps,
                                            startFails, failedChunks)[2]
         IN \E os \in [1..Len(failures) -> OsOutcomes] :
              LET r == MoveAll(failures, 1, gfs, no_gps_dir, Parent(last_gps_dir),
                               gdry_run, os)
              IN /\ final_failures' = failures
                 /\ gfs' = r.fs
                 /\ moved' = moved \cup {f \in DOMAIN gfs.at : r.fs.at[f] # gfs.at[f]}
                 /\ oracle_down' = (oracle_down \/ (startFails /\ files_in_last_gps # <<>>))
    /\ final_requery' = files_in_last_gps
    /\ gpc' = "done"
    /\ UNCHANGED <<gps, gdry_run, gargs, all_files, already_tagged, files_to_geotag_pass1,
                   files_for_pass2, files_in_last_gps, pass1_call, pass2_call>>

NextGeotag ==
    \/ GeotagPreflight
    \/ GeotagInitialScan
    \/ GeotagPass1
    \/ GeotagMoveToLastGps
    \/ GeotagPass2
    \/ GeotagMoveToNoGps

\* ======================================================================
\* Phase 1: handle_dedup
\* ======================================================================

workspace_dir == cwd \o <<<<"_", "w">>>>
trash_dir == cwd \o <<<<"_", "t">>>>

NoReport == <<"(no report)">>
OldReport == <<"(report of an earlier run)">>

\* The bytes a file can hold, and what stat and the hash make of them: two
\* contents may have the same size, no two have the same checksum.
Contents == {1, 2, 3}
SizeOf(c) == 10 + (c % 2)
ChecksumOf(c) == (c * 2) % 5

\* str(path) of a resolved path, relative to the root of the file system
RECURSIVE Str(_)
Str(path) == IF path = <<>> THEN <<>> ELSE <<"/">> \o path[1] \o Str(Tail(path))

\* str.startswith
StartsWith(s, prefix) == IsPrefix(prefix, s)

\* Lines 108-113: the scan lists the files of every directory whose resolved
\* path does not start with the path of an excluded directory.
DedupScanned(fs, exclude_dirs) ==
    {f \in DOMAIN fs.at :
        /\ fs.at[f] # Gone
        /\ \A ex_dir \in exclude_dirs :
              ~StartsWith(Str(Parent(fs.at[f])), Str(ex_dir))}

\* The orders in which os.walk can deliver the files of S: the files of one
\* directory together, and no directory before a directory above it; which
\* directory and which file comes first is the file system's choice.
WalkOrders(fs, S) ==
    {o \in [1..Cardinality(S) -> S] :
        /\ \A i, j \in DOMAIN o : i # j => o[i] # o[j]
        /\ \A i, j, k \in DOMAIN o :
              (i < j /\ j < k /\ Parent(fs.at[o[i]]) = Parent(fs.at[o[k]]))
                  => Parent(fs.at[o[j]]) = Parent(fs.at[o[i]])
        /\ \A i, j \in DOMAIN o :
              (i < j /\ Parent(fs.at[o[i]]) # Parent(fs.at[o[j]]))
                  => ~IsPrefix(Parent(fs.at[o[j]]), Parent(fs.at[o[i]]))}

\* Lines 115-122: the record of a file
FileInfo(fs, bytes, f) ==
    [path |-> fs.at[f], name |-> fs.at[f][Len(fs.at[f])],
     size |-> SizeOf(bytes[f]), checksum |-> ChecksumOf(bytes[f])]

\* Line 46 and the configuration file: the algorithm names; hashlib knows
\* md5, and md6 is a name it does not know.
ConfiguredAlgorithms == {"md5", "md6"}
HashlibAlgorithms == {"md5"}

\* What stat and open/read do for one file.
IoOutcomes == {"ok", "stat_fails", "read_fails"}

\* Line 87: the None of _get_file_hash; line 80: the ValueError of hashlib.new
NoHash == 0 - 1
ValueError == 0 - 2

\* Lines 78-87: _get_file_hash
GetFileHash(bytes, algorithm, io) ==
    IF algorithm \notin HashlibAlgorithms THEN ValueError
    ELSE IF io = "read_fails" THEN NoHash
    ELSE ChecksumOf(bytes)

\* Line 142: the identity key, and the order of two keys in sorted()
IdentityKey(info) == <<info.size, info.checksum>>

KeyLess(k1, k2) == k1[1] < k2[1] \/ (k1[1] = k2[1] /\ k1[2] < k2[2])

\* Line 148: items.sort(key=lambda x: x["path"])
ByPath(a, b) == PathLess(a.path, b.path)

\* A group that would be left in the order of the scan.
SortItems_Arrival(items) == items

\* list.sort is stable: items with equal keys keep their order.
SortItems(items) ==
    LET n == Len(items)
        Rank(i) == 1 + Cardinality({j \in 1..n :
                          \/ ByPath(items[j], items[i])
                          \/ ~ByPath(items[i], items[j]) /\ j < i})
    IN [k \in 1..n |-> items[CHOOSE i \in 1..n : Rank(i) = k]]

\* Line 146: sorted(files_by_identity.items()), the keys in increasing order
SortedIdentities(S) ==
    [k \in 1..Cardinality(S) |->
        CHOOSE x \in S : Cardinality({y \in S : KeyLess(y, x)}) = k - 1]

\* Lines 140-151: the duplicates in the order of the loop, each with the
\* member its group keeps.
DuplicatePlan(data) ==
    LET keys == SortedIdentities({IdentityKey(data[i]) : i \in DOMAIN data})
        ItemsOf(key) == SelectSeq(data, LAMBDA info : IdentityKey(info) = key)
        RECURSIVE FromKey(_)
        FromKey(k) ==
            IF k > Len(keys) THEN <<>>
            ELSE LET items == SortItems(ItemsOf(keys[k]))
                 IN (IF Len(items) > 1
                     THEN [i \in 1..(Len(items) - 1) |->
                             [dup |-> items[i + 1].path, original |-> items[1].path]]
                     ELSE <<>>) \o FromKey(k + 1)
    IN FromKey(1)

\* Lines 149-156: the moves of _move_duplicates. os[i] is what the operating
\* system does to the i-th move; in a dry run no move is attempted.
RECURSIVE MoveDuplicates(_, _, _, _, _)
MoveDuplicates(plan, i, fs, dry_run, os) ==
    IF i > Len(plan) THEN [fs |-> fs, log |-> <<>>]
    ELSE LET r == IF dry_run THEN [ret |-> None, fs |-> fs]
                  ELSE MoveFileRobustly(fs, plan[i].dup, trash_dir, dry_run, None, os[i])
             rest == MoveDuplicates(plan, i + 1, r.fs, dry_run, os)
         IN [fs |-> rest.fs,
             log |-> <<[dup |-> plan[i].dup, original |-> plan[i].original,
                        ret |-> r.ret, os |-> os[i]]>> \o rest.log]

\* A report that would list every name with several files.
IsConflict_AnyTwo(items) == Len(items) > 1

\* Line 179: a name is reported when its files have several checksums
IsConflict(items) == Cardinality({items[i].checksum : i \in DOMAIN items}) > 1

\* Lines 177-184: the entries of the report, by name; the lines of an entry
\* by checksum (sorted(items, key=checksum)).
ByChecksum(a, b) == a.checksum < b.checksum

\* Line 182: sorted(items, key=checksum), a stable sort
SortByChecksum(items) ==
    LET n == Len(items)
        Rank(i) == 1 + Cardinality({j \in 1..n :
                          \/ ByChecksum(items[j], items[i])
                          \/ ~ByChecksum(items[i], items[j]) /\ j < i})
    IN [k \in 1..n |-> items[CHOOSE i \in 1..n : Rank(i) = k]]

\* Line 177: sorted(files_by_name.items()), the names in increasing order
SortedNames(S) ==
    [k \in 1..Cardinality(S) |->
        CHOOSE x \in S : Cardinality({y \in S : StrLess(y, x)}) = k - 1]

ReportContent(data) ==
    LET names == SortedNames({data[i].name : i \in DOMAIN data})
        ItemsOf(name) == SelectSeq(data, LAMBDA info : info.name = name)
        RECURSIVE FromName(_)
        FromName(k) ==
            IF k > Len(names) THEN <<>>
            ELSE LET items == ItemsOf(names[k])
                 IN (IF IsConflict(items)
                     THEN <<[name |-> names[k], instances |-> Len(items),
                             versions |-> Cardinality({items[i].checksum : i \in DOMAIN items}),
                             lines |-> SortByChecksum(items)]>>
                     ELSE <<>>) \o FromName(k + 1)
    IN FromName(1)

\* Lines 186-195: the report is written outside a dry run when there is a
\* conflict; without a conflict an existing report file is deleted.
WriteReport(entries, old, dry_run) ==
    IF entries # <<>>
    THEN (IF dry_run THEN old ELSE entries)
    ELSE NoReport

\* The trees handle_dedup is run on: up to MaxDedupFiles of the files x.j,
\* a/x.j, b/x.j and a.j, and possibly what an earlier run left: its
\* directories, a file x.j in the trash, and possibly a report, which is a
\* file of the workspace directory (line 212).
DedupPaths ==
    {dir \o <<<<"x", ".", "j">>>> : dir \in {cwd, <<<<"a">>>>, <<<<"b">>>>}}
        \cup {cwd \o <<<<"a", ".", "j">>>>}

DedupTrees ==
    UNION {{t \in [1..n -> DedupPaths] :
               \A i, j \in 1..n : i < j => PathLess(t[i], t[j])} : n \in 0..MaxDedupFiles}

InitDedup ==
    /\ \E tree \in DedupTrees :
       \E trashed \in BOOLEAN :
         dfs = [at |-> IF trashed
                       THEN tree \o <<trash_dir \o <<<<"x", ".", "j">>>>>>
                       ELSE tree,
                dirs |-> {cwd, <<<<"a">>>>, <<<<"b">>>>}
                           \cup (IF trashed THEN {trash_dir, workspace_dir} ELSE {})]
    /\ dfs0 = dfs
    /\ content \in {c \in [DOMAIN dfs.at -> Contents] :
                       \A f \in DOMAIN c : Under(dfs.at[f], trash_dir) => c[f] = 1}
    /\ ddry_run \in BOOLEAN
    /\ report_file \in IF workspace_dir \in dfs.dirs
                       THEN {NoReport, OldReport} ELSE {NoReport}
    /\ report_file0 = report_file
    /\ checksum_algo \in ConfiguredAlgorithms
    /\ hash_fails = {}
    /\ run = 1
    /\ dpc = "start"
    /\ file_data = <<>>
    /\ dup_log = <<>>
    /\ report_content = <<>>

\* Lines 207-228: the directories, the scan in one of the orders os.walk can
\* produce, and the end of the phase when nothing was scanned. For every
\* scanned file stat or the read may fail (lines 117-124); hashlib.new raises
\* ValueError for an unknown algorithm, which nothing catches.
DedupScan ==
    /\ dpc = "start"
    /\ UNCHANGED notDedup
    /\ LET fs1 == IF ddry_run THEN dfs
                  ELSE [dfs EXCEPT !.dirs = @ \cup {workspace_dir, trash_dir}]
           exclude_dirs == {workspace_dir, trash_dir}
           files_to_scan == DedupScanned(fs1, exclude_dirs)
       IN /\ dfs' = fs1
          /\ \E io \in [files_to_scan -> IoOutcomes] :
               LET hashed == {f \in files_to_scan :
                                 /\ io[f] # "stat_fails"
                                 /\ GetFileHash(content[f], checksum_algo, io[f]) # NoHash}
               IN IF \E f \in files_to_scan :
                        /\ io[f] # "stat_fails"
                        /\ GetFileHash(content[f], checksum_algo, io[f]) = ValueError
                  THEN /\ dpc' = "raised"
                       /\ UNCHANGED <<file_data, hash_fails>>
                  ELSE /\ \E order \in WalkOrders(fs1, hashed) :
                            file_data' = [i \in DOMAIN order |->
                                             FileInfo(fs1, content, order[i])]
                       /\ hash_fails' = files_to_scan \ hashed
                       /\ dpc' = IF file_data' = <<>> THEN "done" ELSE "move"
    /\ UNCHANGED <<dfs0, content, ddry_run, dup_log, report_content, report_file,
                   report_file0, checksum_algo, run>>

\* Line 229: _move_duplicates
DedupMoveDuplicates ==
    /\ dpc = "move"
    /\ UNCHANGED notDedup
    /\ LET plan == DuplicatePlan(file_data)
       IN \E os \in [1..Len(plan) -> {"ok", "move_fails"}] :
            LET r == MoveDuplicates(plan, 1, dfs, ddry_run, os)
            IN dfs' = r.fs /\ dup_log' = r.log
    /\ dpc' = "report"
    /\ UNCHANGED <<dfs0, content, ddry_run, file_data, report_content, report_file,
                   report_file0, checksum_algo, hash_fails, run>>

\* Line 230: _generate_conflict_report
DedupConflictReport ==
    /\ dpc = "report"
    /\ UNCHANGED notDedup
    /\ report_content' = ReportContent(file_data)
    /\ report_file' = WriteReport(report_content', report_file, ddry_run)
    /\ dpc' = "done"
    /\ UNCHANGED <<dfs, dfs0, content, ddry_run, file_data, dup_log, report_file0,
                   checksum_algo, hash_fails, run>>

NextDedup ==
    \/ DedupScan
    \/ DedupMoveDuplicates
    \/ DedupConflictReport

\* handle_dedup is called again (lines 198-232) on what a call outside a dry
\* run, in which every move succeeded, has left.
DedupRunAgain ==
    /\ dpc = "done" /\ run = 1 /\ ~ddry_run
    /\ \A k \in DOMAIN dup_log : dup_log[k].os = "ok"
    /\ UNCHANGED notDedup
    /\ run' = 2
    /\ dpc' = "start"
    /\ dfs0' = dfs
    /\ report_file0' = report_file
    /\ file_data' = <<>>
    /\ dup_log' = <<>>
    /\ report_content' = <<>>
    /\ hash_fails' = {}
    /\ UNCHANGED <<dfs, content, ddry_run, report_file, checksum_algo>>

NextDedupTwice ==
    \/ DedupScan
    \/ DedupMoveDuplicates
    \/ DedupConflictReport
    \/ DedupRunAgain

\* ======================================================================
\* The relocators, called on files of one base name
\* ======================================================================

\* The directory the files start under, the root they are held in by the
\* structure-preserving relocator, and the target of the flat relocator.
base_dir == <<<<"a">>>>
holding_root == <<<<"h">>>>
flat_target == <<<<"t">>>>

\* The base names: a plain name, a name with two suffixes, a hidden file
\* whose name repeats its suffix, and a name without a suffix.
BaseNames == {<<"a", ".", "j">>, <<"a", ".", "t", ".", "j">>,
              <<".", "j", ".", "j">>, <<"a">>}

NoCallYet ==
    [op |-> "none", f |-> 0, source_path |-> None, dry_run |-> FALSE,
     ret |-> None, dry_ret |-> None]

\* n files named name, file i in the directory i of base_dir; the target
\* directory exists and may hold a file of that name already.
InitRelocate ==
    /\ rname \in BaseNames
    /\ \E n \in 1..MaxMoveFiles :
       \E occupied \in BOOLEAN :
         /\ sources = 1..n
         /\ rfs = [at |-> [i \in 1..n |-> base_dir \o <<<<ToString(i)>>, rname>>]
                          \o (IF occupied THEN <<flat_target \o <<rname>>>> ELSE <<>>),
                   dirs |-> {<<>>, base_dir, flat_target}
                              \cup {base_dir \o <<<<ToString(i)>>>> : i \in 1..n}]
    /\ came_from = [f \in sources |-> None]
    /\ last_call = NoCallYet

\* A call of _move_file_robustly for a file that is not in the target yet.
MoveRobustlyCall ==
    /\ UNCHANGED notReloc
    /\ \E f \in sources :
       \E dry_run \in BOOLEAN :
       \E os \in {"ok", "move_fails"} :
         LET source_path == rfs.at[f]
             r == MoveFileRobustly(rfs, source_path, flat_target, dry_run, None, os)
             d == MoveFileRobustly(rfs, source_path, flat_target, TRUE, None, os)
         IN /\ source_path # Gone
            /\ ~Under(source_path, flat_target)
            /\ dry_run => os = "ok"
            /\ rfs' = r.fs
            /\ came_from' = [came_from EXCEPT
                                ![f] = IF rfs'.at[f] # source_path THEN None ELSE @]
            /\ last_call' = [op |-> "flat", f |-> f, source_path |-> source_path,
                             dry_run |-> dry_run, ret |-> r.ret, dry_ret |-> d.ret]
    /\ UNCHANGED <<rname, sources>>

\* A call of _move_file_preserving_structure from base_dir into holding_root.
MovePreservingCall ==
    /\ UNCHANGED notReloc
    /\ \E f \in sources :
       \E dry_run \in BOOLEAN :
       \E os \in OsOutcomes :
         LET source_path == rfs.at[f]
             r == MoveFilePreservingStructure(rfs, source_path, holding_root,
                                              base_dir, dry_run, os)
             d == MoveFilePreservingStructure(rfs, source_path, holding_root,
                                              base_dir, TRUE, os)
         IN /\ source_path # Gone
            /\ dry_run => os = "ok"
            /\ rfs' = r.fs
            /\ came_from' = [came_from EXCEPT
                                ![f] = IF rfs'.at[f] # source_path THEN source_path ELSE @]
            /\ last_call' = [op |-> "forward", f |-> f, source_path |-> source_path,
                             dry_run |-> dry_run, ret |-> r.ret, dry_ret |-> d.ret]
    /\ UNCHANGED <<rname, sources>>

\* The reverse call: from holding_root back into base_dir.
MovePreservingBackCall ==
    /\ UNCHANGED notReloc
    /\ \E f \in sources :
       \E dry_run \in BOOLEAN :
       \E os \in OsOutcomes :
         LET source_path == rfs.at[f]
             r == MoveFilePreservingStructure(rfs, source_path, base_dir,
                                              holding_root, dry_run, os)
             d == MoveFilePreservingStructure(rfs, source_path, base_dir,
                                              holding_root, TRUE, os)
         IN /\ source_path # Gone
            /\ dry_run => os = "ok"
            /\ rfs' = r.fs
            /\ last_call' = [op |-> "reverse", f |-> f, source_path |-> source_path,
                             dry_run |-> dry_run, ret |-> r.ret, dry_ret |-> d.ret]
    /\ UNCHANGED <<rname, sources, came_from>>

NextRelocate ==
    \/ MoveRobustlyCall
    \/ MovePreservingCall
    \/ MovePreservingBackCall

\* ======================================================================
\* The scans of the phases
\* ======================================================================
\* The directory names are shortened: _w is the workspace directory, _t the
\* duplicates trash, _n, _u, _o and _e are _non_photos, _untagged_photos,
\* _originals and _extra_jpgs, and b is by-date.
non_photos_dir == cwd \o <<<<"_", "n">>>>
untagged_photos_dir == cwd \o <<<<"_", "u">>>>
originals_dir == cwd \o <<<<"_", "o">>>>
extra_jpgs_dir == cwd \o <<<<"_", "e">>>>
by_date_dir == cwd \o <<<<"b">>>>
\* Line 876: non-gps, shortened to n
non_gps_dir == cwd \o <<<<"n">>>>

\* str.endswith
EndsWith(s, suffix) ==
    Len(suffix) <= Len(s) /\ SubSeq(s, Len(s) - Len(suffix) + 1, Len(s)) = suffix

\* str.lower, on the letters of the model
LowerChar(c) ==
    CASE c = "N" -> "n" [] c = "E" -> "e" [] c = "F" -> "f" [] OTHER -> c

Lower(s) == [i \in DOMAIN s |-> LowerChar(s[i])]

Original == <<"_", "o", "r", "i", "g", "i", "n", "a", "l">>
Tmp == <<".", "t", "m", "p">>

\* Line 461: the raw extensions (two of the configured five)
raw_ext == {<<".", "c", "r", "2">>, <<".", "n", "e", "f">>}

\* Line 880: the raw and the image extensions; .j stands for .jpg, as in the
\* file names of the model.
photo_ext == raw_ext \cup {<<".", "j">>}

\* PurePath.suffix: the name from its last dot on, nothing when that dot is
\* the first or the last character or when there is no dot.
Suffix(name) ==
    LET dots == {i \in DOMAIN name : name[i] = "."}
    IN IF dots = {} THEN <<>>
       ELSE LET i == CHOOSE d \in dots : \A e \in dots : e <= d
            IN IF 1 < i /\ i < Len(name) THEN SubSeq(name, i, Len(name)) ELSE <<>>

\* Line 551: the files of the script itself
ScriptFiles == {<<"p", "h", "o", "t", "o", "f", "l", "o", "w", ".", "p", "y">>,
                <<"p", "y", "p", "r", "o", "j", "e", "c", "t", ".", "t", "o", "m", "l">>,
                <<"R", "E", "A", "D", "M", "E", ".", "m", "d">>,
                <<"s", "p", "e", "c", "i", "f", "i", "c", "a", "t", "i", "o", "n", ".", "m", "d">>,
                <<".", "g", "i", "t", "i", "g", "n", "o", "r", "e">>}

Files(fs) == {f \in DOMAIN fs.at : fs.at[f] # Gone}

Name(path) == path[Len(path)]

\* Line 362: the directories handle_timeshift leaves out
special_dirs == {workspace_dir, non_photos_dir, untagged_photos_dir, originals_dir}

\* Lines 364-370: os.walk visits every directory; the files of a directory
\* that is one of special_dirs are skipped, and so are backup and temporary files.
TimeshiftScanned(fs) ==
    {fs.at[f] : f \in {g \in Files(fs) :
        /\ Parent(fs.at[g]) \notin special_dirs
        /\ ~EndsWith(Name(fs.at[g]), Original)
        /\ ~EndsWith(Name(fs.at[g]), Tmp)}}

\* Lines 416-421: the backup files exiftool left
BackupScanned(fs) ==
    {fs.at[f] : f \in {g \in Files(fs) :
        /\ Parent(fs.at[g]) \notin special_dirs
        /\ EndsWith(Name(fs.at[g]), Original)}}

\* Lines 465-470: the raw files outside the directory _extra_jpgs itself
PairJpegsScanned(fs) ==
    {fs.at[f] : f \in {g \in Files(fs) :
        /\ Parent(fs.at[g]) # extra_jpgs_dir
        /\ \E ext \in raw_ext : EndsWith(Lower(Name(fs.at[g])), ext)}}

\* Lines 536-539: by-date, the workspace, and every directory _* of cwd
ByDateExcludeDirs(fs) ==
    {by_date_dir, workspace_dir}
        \cup {d \in fs.dirs : Len(d) = Len(cwd) + 1 /\ Parent(d) = cwd
                               /\ StartsWith(Name(d), <<"_">>)}

\* Lines 541-555: every file whose path does not start with the path of an
\* excluded directory, but for the files of the script in cwd.
ByDateCollected(fs) ==
    {fs.at[f] : f \in {g \in Files(fs) :
        /\ \A ex_dir \in ByDateExcludeDirs(fs) :
              ~StartsWith(Str(fs.at[g]), Str(ex_dir))
        /\ ~(Parent(fs.at[g]) = cwd /\ Name(fs.at[g]) \in ScriptFiles)}}

\* Lines 883-891 of handle_move_no_gps: the photo files whose path does not
\* start with the path of non-gps.
MoveNoGpsScanned(fs) ==
    {fs.at[f] : f \in {g \in Files(fs) :
        /\ ~StartsWith(Str(fs.at[g]), Str(non_gps_dir))
        /\ Lower(Suffix(Name(fs.at[g]))) \in photo_ext}}

\* The directories and the file names of the trees that are scanned: cwd, a
\* plain directory, excluded directories and a directory below each, and
\* two directories whose names begin like the name of an excluded one.
ScanDirs ==
    <<cwd, cwd \o <<<<"p">>>>,
      workspace_dir, workspace_dir \o <<<<"s">>>>,
      originals_dir, originals_dir \o <<<<"s">>>>,
      extra_jpgs_dir, extra_jpgs_dir \o <<<<"s">>>>,
      by_date_dir, by_date_dir \o <<<<"s">>>>,
      cwd \o <<<<"_", "w", "2">>>>, cwd \o <<<<"b", "2">>>>,
      non_gps_dir, cwd \o <<<<"n", "2">>>>>>

ScanNames ==
    <<<<"x", ".", "j">>, <<"x", ".", "N", "E", "F">>,
      <<"x", ".", "j">> \o Original, <<"x">> \o Tmp,
      <<"R", "E", "A", "D", "M", "E", ".", "m", "d">>>>

\* up to MaxScanFiles different places <<directory, name>>, in increasing order
ScanTrees ==
    UNION {{t \in [1..n -> (DOMAIN ScanDirs) \X (DOMAIN ScanNames)] :
               \A i, j \in 1..n : i < j =>
                   \/ t[i][1] < t[j][1]
                   \/ t[i][1] = t[j][1] /\ t[i][2] < t[j][2]} : n \in 0..MaxScanFiles}

InitScan ==
    /\ \E t \in ScanTrees :
         sfs = [at |-> [i \in DOMAIN t |-> ScanDirs[t[i][1]] \o <<ScanNames[t[i][2]]>>],
                dirs |-> UNION {{SubSeq(ScanDirs[t[i][1]], 1, k) :
                                    k \in 0..Len(ScanDirs[t[i][1]])} : i \in DOMAIN t}
                            \cup {cwd}]
    /\ scan = "none"
    /\ candidates = {}

\* Lines 108-113
ScanForDedup ==
    /\ scan = "none"
    /\ UNCHANGED notScan
    /\ scan' = "dedup"
    /\ candidates' = {sfs.at[f] : f \in DedupScanned(sfs, {workspace_dir, trash_dir})}
    /\ UNCHANGED sfs

\* Lines 364-370
ScanForTimeshift ==
    /\ scan = "none"
    /\ UNCHANGED notScan
    /\ scan' = "timeshift"
    /\ candidates' = TimeshiftScanned(sfs)
    /\ UNCHANGED sfs

\* Lines 416-421
ScanForBackups ==
    /\ scan = "none"
    /\ UNCHANGED notScan
    /\ scan' = "backup"
    /\ candidates' = BackupScanned(sfs)
    /\ UNCHANGED sfs

\* Lines 465-470
ScanForPairJpegs ==
    /\ scan = "none"
    /\ UNCHANGED notScan
    /\ scan' = "pair-jpegs"
    /\ candidates' = PairJpegsScanned(sfs)
    /\ UNCHANGED sfs

\* Lines 533-557
ScanForByDate ==
    /\ scan = "none"
    /\ UNCHANGED notScan
    /\ scan' = "by-date"
    /\ candidates' = ByDateCollected(sfs)
    /\ UNCHANGED sfs

\* Lines 883-891
ScanForMoveNoGps ==
    /\ scan = "none"
    /\ UNCHANGED notScan
    /\ scan' = "move-no-gps"
    /\ candidates' = MoveNoGpsScanned(sfs)
    /\ UNCHANGED sfs

NextScan ==
    \/ ScanForDedup
    \/ ScanForTimeshift
    \/ ScanForBackups
    \/ ScanForPairJpegs
    \/ ScanForByDate
    \/ ScanForMoveNoGps

\* ======================================================================
\* Phase 2: handle_timeshift
\* ======================================================================

\* The position after the digits of s that begin at position i.
RECURSIVE SkipDigits(_, _)
SkipDigits(s, i) == IF i <= Len(s) /\ s[i] \in Digits THEN SkipDigits(s, i + 1) ELSE i

\* \d{1,}:\d{1,}:\d{1,} from position i: the position after it, 0 for no match
MatchTriple(s, i) ==
    LET a == SkipDigits(s, i)
        b == SkipDigits(s, a + 1)
        c == SkipDigits(s, b + 1)
    IN IF a > i /\ a <= Len(s) /\ s[a] = ":" /\ b > a + 1 /\ b <= Len(s) /\ s[b] = ":"
          /\ c > b + 1
       THEN c ELSE 0

\* Line 300: ^[+-]?=\d{1,}:\d{1,}:\d{1,}( \d{1,}:\d{1,}:\d{1,})?$
OffsetPatternMatches(s) ==
    LET eq == IF s # <<>> /\ s[1] \in {"+", "-"} THEN 2 ELSE 1
        t == MatchTriple(s, eq + 1)
    IN /\ eq <= Len(s) /\ s[eq] = "="
       /\ t # 0
       /\ \/ AtEnd(s, t)
          \/ /\ t <= Len(s) /\ s[t] = " "
             /\ MatchTriple(s, t + 1) # 0
             /\ AtEnd(s, MatchTriple(s, t + 1))

\* any([args.days, args.hours, args.minutes, args.seconds])
AnyUnit(args) ==
    args.days # 0 \/ args.hours # 0 \/ args.minutes # 0 \/ args.seconds # 0

\* datetime.timedelta: the largest number of days of a timedelta
MaxTimedeltaDays == 999999999

\* The OverflowError of timedelta(...) (line 314), which nothing catches
OverflowError == <<"(OverflowError)">>

\* Line 314: timedelta(days, hours, minutes, seconds), normalized to days and
\* seconds with 0 <= seconds < 86400; it raises OverflowError (overflow)
\* beyond MaxTimedeltaDays.
Timedelta(args) ==
    LET rest == args.hours * 3600 + args.minutes * 60 + args.seconds
        d == args.days + (rest \div 86400)
        sec == rest % 86400
    IN [overflow |-> d > MaxTimedeltaDays \/ d < 0 - MaxTimedeltaDays,
        days |-> d, seconds |-> sec]

\* Lines 290-330: the offset string, None for arguments that are rejected.
\* abs(int(total_seconds)) is split into days and a rest below 86400 from
\* the normalized timedelta (total_seconds = days * 86400 + seconds).
CalculateTimeshiftOffset(args) ==
    IF args.offset # None /\ args.offset # <<>>
    THEN (IF AnyUnit(args) THEN None
          ELSE IF ~OffsetPatternMatches(args.offset) THEN None
          ELSE args.offset)
    ELSE IF ~AnyUnit(args) THEN None
    ELSE LET delta == Timedelta(args)
         IN IF delta.overflow THEN OverflowError
            ELSE LET negative == delta.days < 0
                     sign == IF ~negative THEN <<"+", "=">> ELSE <<"-", "=">>
                     days == IF ~negative THEN delta.days
                             ELSE IF delta.seconds = 0 THEN 0 - delta.days
                             ELSE 0 - delta.days - 1
                     s == IF ~negative THEN delta.seconds
                          ELSE IF delta.seconds = 0 THEN 0
                          ELSE 86400 - delta.seconds
                     hours == s \div 3600
                     minutes == (s % 3600) \div 60
                     seconds == (s % 3600) % 60
                 IN IF delta.days = 0 /\ delta.seconds = 0 THEN <<"0">>
                    ELSE sign \o <<"0", ":", "0", ":">> \o Decimal(days) \o <<" ">>
                           \o Decimal(hours) \o <<":">> \o Decimal(minutes) \o <<":">>
                           \o Decimal(seconds)

\* Values of --days, --hours, --minutes and --seconds (type=int): zero,
\* values that carry into the next unit, negative values, and days at and
\* beyond the range of timedelta.
ShiftDays == {0 - 1000000000, 0 - 1, 0, 1, 999999999}
ShiftHours == {0 - 25, 0, 1}
ShiftMinutes == {0 - 60, 0, 61}
ShiftSeconds == {0 - 1, 0, 86400}

\* The arguments handle_timeshift is called with: an offset alone, an offset
\* with a unit flag, offsets of a wrong form, an empty offset with a unit
\* flag, nothing, units that add up to zero, and units that give a shift.
TimeshiftArgs ==
    [offset : {None}, days : ShiftDays, hours : ShiftHours, minutes : ShiftMinutes,
     seconds : ShiftSeconds] \cup
    {[offset |-> <<>>, days |-> 0, hours |-> 1, minutes |-> 0, seconds |-> 0],
     [offset |-> <<"+", "=", "0", ":", "0", ":", "1">>, days |-> 0, hours |-> 0, minutes |-> 0, seconds |-> 0],
     [offset |-> <<"-", "=", "0", ":", "0", ":", "0", " ", "1", ":", "3", "0", ":", "0">>, days |-> 0, hours |-> 0, minutes |-> 0, seconds |-> 0],
     [offset |-> <<"+", "=", "0", ":", "0", ":", "1">>, days |-> 0, hours |-> 1, minutes |-> 0, seconds |-> 0],
     [offset |-> <<"+", "1", ":", "0", ":", "0">>, days |-> 0, hours |-> 0, minutes |-> 0, seconds |-> 0],
     [offset |-> <<"+", "=", "1", ":", "0">>, days |-> 0, hours |-> 0, minutes |-> 0, seconds |-> 0],
     [offset |-> None, days |-> 0, hours |-> 0, minutes |-> 0, seconds |-> 0],
     [offset |-> None, days |-> 0, hours |-> 1, minutes |-> -60, seconds |-> 0],
     [offset |-> None, days |-> 0, hours |-> -1, minutes |-> 30, seconds |-> 0],
     [offset |-> None, days |-> 1, hours |-> 0, minutes |-> 0, seconds |-> 1]}

\* The trees handle_timeshift is run on: up to MaxShiftFiles of the files
\* x.j and p/x.j and of backups of these left by an earlier run.
ShiftPaths ==
    <<cwd \o <<<<"x", ".", "j">>>>,
      cwd \o <<<<"x", ".", "j">> \o Original>>,
      cwd \o <<<<"p">>, <<"x", ".", "j">>>>,
      cwd \o <<<<"p">>, <<"x", ".", "j">> \o Original>>>>

ShiftTrees ==
    UNION {{t \in [1..n -> DOMAIN ShiftPaths] :
               \A i, j \in 1..n : i < j => t[i] < t[j]} : n \in 0..MaxShiftFiles}

InitTimeshift ==
    /\ \E t \in ShiftTrees :
         tfs = [at |-> [i \in DOMAIN t |-> ShiftPaths[t[i]]],
                dirs |-> {cwd, cwd \o <<<<"p">>>>}]
    /\ tfs0 = tfs
    /\ targs \in TimeshiftArgs
    /\ tdry_run \in BOOLEAN
    /\ tpc = "start"
    /\ tret = "not returned"
    /\ files_to_process = <<>>
    /\ next_file = 0
    /\ updated_count = 0
    /\ no_tags_count = 0
    /\ error_count = 0
    /\ originals_moved_count = 0
    /\ tally = <<>>
    /\ shifted = {}
    /\ oracle_started = "no"
    /\ oracle_calls = {}

\* Lines 345-375: the offset, the special directories and the scan; an
\* exception of _calculate_timeshift_offset ends handle_timeshift ("raised").
TimeshiftStart ==
    /\ tpc = "start"
    /\ UNCHANGED notTimeshift
    /\ LET offset_str == CalculateTimeshiftOffset(targs)
           fs1 == IF tdry_run THEN tfs
                  ELSE [tfs EXCEPT !.dirs = @ \cup special_dirs]
           found == {f \in Files(fs1) : fs1.at[f] \in TimeshiftScanned(fs1)}
       IN IF offset_str = OverflowError
          THEN tret' = "raised" /\ tpc' = "done"
                 /\ UNCHANGED <<tfs, files_to_process, tally>>
          ELSE IF offset_str = None
          THEN tret' = "1" /\ tpc' = "done"
                 /\ UNCHANGED <<tfs, files_to_process, tally>>
          ELSE IF offset_str = <<"0">>
          THEN tret' = "0" /\ tpc' = "done"
                 /\ UNCHANGED <<tfs, files_to_process, tally>>
          ELSE /\ tfs' = fs1
               /\ \E order \in WalkOrders(fs1, found) :
                    files_to_process' = [i \in DOMAIN order |-> fs1.at[order[i]]]
               /\ tally' = [i \in DOMAIN files_to_process' |-> 0]
               /\ tpc' = "oracle"
               /\ UNCHANGED tret
    /\ UNCHANGED <<tfs0, targs, tdry_run, next_file, updated_count, no_tags_count,
                   error_count, originals_moved_count, shifted, oracle_started,
                   oracle_calls>>

\* Lines 382-383 and 406-410: the oracle starts, or the start raises.
TimeshiftOracleStart ==
    /\ tpc = "oracle"
    /\ UNCHANGED notTimeshift
    /\ \E starts \in BOOLEAN :
         IF starts
         THEN /\ oracle_started' = "yes"
              /\ next_file' = 1
              /\ tpc' = IF files_to_process = <<>> THEN "backups" ELSE "loop"
              /\ UNCHANGED <<error_count, tally>>
         ELSE /\ oracle_started' = "failed"
              /\ error_count' = IF tdry_run THEN error_count ELSE Len(files_to_process)
              /\ tally' = IF tdry_run THEN tally
                          ELSE [i \in DOMAIN files_to_process |-> 1]
              /\ tpc' = "backups"
              /\ UNCHANGED next_file
    /\ UNCHANGED <<tfs, tfs0, targs, tdry_run, tret, files_to_process, updated_count,
                   no_tags_count, originals_moved_count, shifted, oracle_calls>>

\* What et.execute gives for one file: "1 image files updated" (the file is
\* rewritten and its backup <name>_original is left next to it), "0 image
\* files updated", some other output, or an exception.
OracleOutcomes == {"updated", "not_updated", "other", "exception"}

BackupOf(path) == Parent(path) \o <<Name(path) \o Original>>

\* Lines 384-405: one turn of the loop over files_to_process.
TimeshiftFile ==
    /\ tpc = "loop"
    /\ UNCHANGED notTimeshift
    /\ LET filepath == files_to_process[next_file]
           Count(n) == [tally EXCEPT ![next_file] = @ + n]
       IN IF tdry_run
          THEN UNCHANGED <<tfs, updated_count, no_tags_count, error_count, tally,
                           shifted, oracle_calls>>
          ELSE /\ oracle_calls' = oracle_calls \cup {filepath}
               /\ \E output \in OracleOutcomes :
                  \E os \in {"ok", "move_fails"} :
                    LET to_untagged == MoveFileRobustly(tfs, filepath, untagged_photos_dir,
                                                        tdry_run, None, os)
                        to_non_photos == MoveFileRobustly(tfs, filepath, non_photos_dir,
                                                          tdry_run, None, os)
                    IN CASE output = "updated" ->
                              /\ os = "ok"
                              /\ ~Exists(tfs, BackupOf(filepath))
                              /\ tfs' = [tfs EXCEPT !.at = Append(@, BackupOf(filepath))]
                              /\ shifted' = shifted \cup {filepath}
                              /\ updated_count' = updated_count + 1
                              /\ tally' = Count(1)
                              /\ UNCHANGED <<no_tags_count, error_count>>
                         [] output = "not_updated" ->
                              /\ tfs' = to_untagged.fs
                              /\ no_tags_count' = no_tags_count
                                    + (IF to_untagged.ret # None THEN 1 ELSE 0)
                              /\ error_count' = error_count
                                    + (IF to_untagged.ret # None THEN 0 ELSE 1)
                              /\ tally' = Count(1)
                              /\ UNCHANGED <<updated_count, shifted>>
                         [] output = "other" ->
                              /\ tfs' = to_non_photos.fs
                              /\ error_count' = error_count + 1
                              /\ tally' = Count(1)
                              /\ UNCHANGED <<updated_count, no_tags_count, shifted>>
                         [] output = "exception" ->
                              /\ tfs' = to_non_photos.fs
                              /\ error_count' = error_count
                                    + (IF to_non_photos.ret # None THEN 1 ELSE 0)
                              /\ tally' = Count(IF to_non_photos.ret # None THEN 1 ELSE 0)
                              /\ UNCHANGED <<updated_count, no_tags_count, shifted>>
    /\ next_file' = next_file + 1
    /\ tpc' = IF next_file = Len(files_to_process) THEN "backups" ELSE "loop"
    /\ UNCHANGED <<tfs0, targs, tdry_run, tret, files_to_process,
                   originals_moved_count, oracle_started>>

\* Lines 423-428: the moves of the backup files into _originals, under their
\* names without "_original".  os[i] is what the operating system does to
\* the i-th move.
RECURSIVE MoveBackups(_, _, _, _, _)
MoveBackups(original_files, i, fs, dry_run, os) ==
    IF i > Len(original_files) THEN [fs |-> fs, moved |-> 0, errors |-> 0]
    ELSE LET orig_path == original_files[i]
             new_name == StrReplace(Name(orig_path), Original, <<>>)
             r == MoveFileRobustly(fs, orig_path, originals_dir, dry_run, new_name, os[i])
             rest == MoveBackups(original_files, i + 1, r.fs, dry_run, os)
         IN [fs |-> rest.fs,
             moved |-> rest.moved + (IF r.ret # None THEN 1 ELSE 0),
             errors |-> rest.errors + (IF r.ret # None THEN 0 ELSE 1)]

\* Lines 412-437: the scan for backup files, their moves, the summary.
TimeshiftBackups ==
    /\ tpc = "backups"
    /\ UNCHANGED notTimeshift
    /\ LET found == {f \in Files(tfs) : tfs.at[f] \in BackupScanned(tfs)}
       IN \E order \in WalkOrders(tfs, found) :
          \E os \in [DOMAIN order -> {"ok", "move_fails"}] :
            LET r == MoveBackups([i \in DOMAIN order |-> tfs.at[order[i]]], 1, tfs,
                                 tdry_run, os)
            IN /\ tfs' = r.fs
               /\ originals_moved_count' = r.moved
               /\ error_count' = error_count + r.errors
    /\ tret' = "None"
    /\ tpc' = "done"
    /\ UNCHANGED <<tfs0, targs, tdry_run, files_to_process, next_file, updated_count,
                   no_tags_count, tally, shifted, oracle_started, oracle_calls>>

NextTimeshift ==
    \/ TimeshiftStart
    \/ TimeshiftOracleStart
    \/ TimeshiftFile
    \/ TimeshiftBackups

\* ======================================================================
\* handle_pair_jpegs
\* ======================================================================

\* Line 462: the image extensions with "jp" in them, in the order of the
\* configuration: .jpg and .jpeg, here .j and .je
img_ext == <<<<".", "j">>, <<".", "j", "e">>>>

\* PurePath.stem: the name without its suffix
Stem(name) == SubSeq(name, 1, Len(name) - Len(Suffix(name)))

\* PurePath.with_name
WithName(path, name) == Parent(path) \o <<name>>

\* EXIF:CameraModelName as the oracle returns it; NoModel is the None of
\* dict.get for a file without the tag.
NoModel == "(no model)"
CameraModels == {NoModel, "A", "B"}

\* EXIF:DateTimeOriginal, in seconds; DateUnreadable is a missing tag or a
\* value that is not of the form YYYY:MM:DD HH:MM:SS.
DateUnreadable == 0 - 1
DateTags == {DateUnreadable, 0, 1, 2}

\* Lines 439-444: _parse_exif_datetime; NoDate is its None.
NoDate == 0 - 1
ParseExifDatetime(dt_str) == IF dt_str = DateUnreadable THEN NoDate ELSE dt_str

Abs(n) == IF n < 0 THEN 0 - n ELSE n

\* Line 501: the comparison of the camera models, by == on what dict.get gives
ModelMatch(raw_tags, jpg_tags) == raw_tags.model = jpg_tags.model

\* Line 502
TimeMatch(raw_dt, jpg_dt) == Abs(raw_dt - jpg_dt) <= 1

\* What et.get_tags does in one call: it returns the tags of both files,
\* fewer than two results, or it raises.
GetTagsOutcomes == {"tags", "short", "exception"}

\* Lines 481-508: the loop over the extensions for one RAW file, from the
\* i-th extension on; env.call[i] is what get_tags does for the i-th
\* extension and env.os what the one move of the loop does.
RECURSIVE PairExtensions(_, _, _, _, _, _)
PairExtensions(fs, tags, raw_path, i, dry_run, env) ==
    IF i > Len(img_ext)
    THEN [fs |-> fs, calls |-> <<>>, found |-> 0, verified |-> 0, moved |-> 0]
    ELSE LET jpg_path == WithName(raw_path, Stem(Name(raw_path)) \o img_ext[i])
             next == PairExtensions(fs, tags, raw_path, i + 1, dry_run, env)
             Continue(outcome) ==
                 [next EXCEPT !.calls = <<[raw |-> raw_path, jpg |-> jpg_path,
                                           outcome |-> outcome]>> \o @,
                              !.found = @ + 1]
             Break(outcome, fs2, v, mv) ==
                 [fs |-> fs2,
                  calls |-> <<[raw |-> raw_path, jpg |-> jpg_path, outcome |-> outcome]>>,
                  found |-> 1, verified |-> v, moved |-> mv]
         IN IF ~Exists(fs, jpg_path) THEN next
            ELSE IF env.call[i] # "tags" THEN Continue(env.call[i])
            ELSE LET raw_tags == tags[FileAt(fs, raw_path)]
                     jpg_tags == tags[FileAt(fs, jpg_path)]
                     raw_dt == ParseExifDatetime(raw_tags.date)
                     jpg_dt == ParseExifDatetime(jpg_tags.date)
                 IN IF raw_dt = NoDate \/ jpg_dt = NoDate THEN Continue("no date")
                    ELSE IF ModelMatch(raw_tags, jpg_tags) /\ TimeMatch(raw_dt, jpg_dt)
                    THEN LET r == MoveFileRobustly(fs, jpg_path, extra_jpgs_dir,
                                                   dry_run, None, env.os)
                         IN Break("verified", r.fs, 1, IF r.ret # None THEN 1 ELSE 0)
                    ELSE Break("not a pair", fs, 0, 0)

\* The trees handle_pair_jpegs is run on: up to MaxPairFiles of the files
\* x.NEF, x.j and x.je of one directory.
PairPaths ==
    <<cwd \o <<<<"x", ".", "N", "E", "F">>>>,
      cwd \o <<<<"x", ".", "j">>>>,
      cwd \o <<<<"x", ".", "j", "e">>>>>>

PairTrees ==
    UNION {{t \in [1..n -> DOMAIN PairPaths] :
               \A i, j \in 1..n : i < j => t[i] < t[j]} : n \in 0..MaxPairFiles}

InitPair ==
    /\ \E t \in PairTrees :
         pfs = [at |-> [i \in DOMAIN t |-> PairPaths[t[i]]], dirs |-> {cwd}]
    /\ pfs0 = pfs
    /\ ptags \in [DOMAIN pfs.at -> [model : CameraModels, date : DateTags]]
    /\ pdry_run \in BOOLEAN
    /\ ppc = "start"
    /\ raw_files = <<>>
    /\ next_raw = 0
    /\ pair_calls = <<>>
    /\ pairs_found_by_name = 0
    /\ pairs_verified = 0
    /\ jpgs_moved = 0

\* Lines 457-472: _extra_jpgs and the scan for RAW files.
PairStart ==
    /\ ppc = "start"
    /\ UNCHANGED notPair
    /\ LET fs1 == IF pdry_run THEN pfs
                  ELSE [pfs EXCEPT !.dirs = @ \cup {extra_jpgs_dir}]
           found == {f \in Files(fs1) : fs1.at[f] \in PairJpegsScanned(fs1)}
       IN /\ pfs' = fs1
          /\ \E order \in WalkOrders(fs1, found) :
               raw_files' = [i \in DOMAIN order |-> fs1.at[order[i]]]
    /\ ppc' = "oracle"
    /\ UNCHANGED <<pfs0, ptags, pdry_run, next_raw, pair_calls, pairs_found_by_name,
                   pairs_verified, jpgs_moved>>

\* Lines 477-478 and 509-510: the oracle starts, or the start raises and the
\* loop is not entered.
PairOracleStart ==
    /\ ppc = "oracle"
    /\ UNCHANGED notPair
    /\ \E starts \in BOOLEAN :
         IF starts THEN ppc' = "loop" /\ next_raw' = 1
         ELSE ppc' = "done" /\ UNCHANGED next_raw
    /\ UNCHANGED <<pfs, pfs0, ptags, pdry_run, raw_files, pair_calls,
                   pairs_found_by_name, pairs_verified, jpgs_moved>>

\* Lines 479-508: one turn of the loop over the RAW files, and its end.
PairRawFile ==
    /\ ppc = "loop"
    /\ UNCHANGED notPair
    /\ IF next_raw > Len(raw_files)
       THEN /\ ppc' = "done"
            /\ UNCHANGED <<pfs, next_raw, pair_calls, pairs_found_by_name,
                           pairs_verified, jpgs_moved>>
       ELSE \E call \in [DOMAIN img_ext -> GetTagsOutcomes] :
            \E os \in {"ok", "move_fails"} :
              LET r == PairExtensions(pfs, ptags, raw_files[next_raw], 1, pdry_run,
                                      [call |-> call, os |-> os])
              IN /\ pfs' = r.fs
                 /\ pair_calls' = pair_calls \o r.calls
                 /\ pairs_found_by_name' = pairs_found_by_name + r.found
                 /\ pairs_verified' = pairs_verified + r.verified
                 /\ jpgs_moved' = jpgs_moved + r.moved
                 /\ next_raw' = next_raw + 1
                 /\ UNCHANGED ppc
    /\ UNCHANGED <<pfs0, ptags, pdry_run, raw_files>>

NextPair ==
    \/ PairStart
    \/ PairOracleStart
    \/ PairRawFile

\* ======================================================================
\* _move_file_robustly, called by several callers at the same time
\* ======================================================================

\* n callers, caller p with the file named qname of the directory p of
\* base_dir and all with the target directory flat_target, which may hold a
\* file of that name already; the callers take a lock around the call, or
\* they do not.
InitRace ==
    /\ qname \in BaseNames
    /\ \E n \in 1..MaxRacers :
       \E occupied \in BOOLEAN :
         /\ callers = 1..n
         /\ qfs = [at |-> [i \in 1..n |-> base_dir \o <<<<ToString(i)>>, qname>>]
                          \o (IF occupied THEN <<flat_target \o <<qname>>>> ELSE <<>>),
                   dirs |-> {<<>>, base_dir, flat_target}
                              \cup {base_dir \o <<<<ToString(i)>>>> : i \in 1..n}]
    /\ locking \in BOOLEAN
    /\ lock = 0
    /\ qpc = [p \in callers |-> "called"]
    /\ qdest = [p \in callers |-> None]
    /\ qret = [p \in callers |-> None]

RaceSource(p) == base_dir \o <<<<ToString(p)>>, qname>>

\* Lines 265-281 in call p: the source exists and the loop ends with a
\* destination that does not exist at this moment.
RaceSelect ==
    \E p \in callers :
        /\ qpc[p] = "called"
        /\ locking => lock = 0
        /\ UNCHANGED notRace
        /\ IF ~Exists(qfs, RaceSource(p))
           THEN /\ qpc' = [qpc EXCEPT ![p] = "returned"]
                /\ UNCHANGED <<qdest, lock>>
           ELSE /\ qdest' = [qdest EXCEPT ![p] =
                                FreeDestination(qfs, flat_target, qname,
                                                flat_target \o <<qname>>, 0)]
                /\ qpc' = [qpc EXCEPT ![p] = "selected"]
                /\ lock' = IF locking THEN p ELSE lock
        /\ UNCHANGED <<qfs, qname, callers, locking, qret>>

\* Lines 283-288 in call p: shutil.move to the selected destination, which
\* replaces a file that is there by now, or OSError.
RaceMove ==
    \E p \in callers :
        /\ qpc[p] = "selected"
        /\ UNCHANGED notRace
        /\ \E os \in {"ok", "move_fails"} :
             IF os = "ok"
             THEN /\ qfs' = ShutilMove(qfs, RaceSource(p), qdest[p])
                  /\ qret' = [qret EXCEPT ![p] = qdest[p]]
             ELSE UNCHANGED <<qfs, qret>>
        /\ qpc' = [qpc EXCEPT ![p] = "returned"]
        /\ lock' = 0
        /\ UNCHANGED <<qname, callers, locking, qdest>>

NextRace ==
    \/ RaceSelect
    \/ RaceMove

\* ======================================================================
\* Specifications
\* ======================================================================
\* Every phase but handle_geotag is idle.
GeotagIdle ==
    /\ gfs = [at |-> <<>>, dirs |-> {}]
    /\ gps = <<>>
    /\ gdry_run = FALSE
    /\ gargs = <<>>
    /\ gpc = "idle"
    /\ all_files = <<>>
    /\ already_tagged = <<>>
    /\ files_to_geotag_pass1 = <<>>
    /\ files_for_pass2 = <<>>
    /\ files_in_last_gps = <<>>
    /\ final_failures = <<>>
    /\ pass1_call = NoCall
    /\ pass2_call = NoCall
    /\ final_requery = <<>>
    /\ moved = {}
    /\ oracle_down = FALSE

DedupIdle ==
    /\ dfs = [at |-> <<>>, dirs |-> {}]
    /\ dfs0 = dfs
    /\ content = <<>>
    /\ ddry_run = FALSE
    /\ dpc = "idle"
    /\ file_data = <<>>
    /\ dup_log = <<>>
    /\ report_content = <<>>
    /\ report_file = NoReport
    /\ report_file0 = NoReport
    /\ checksum_algo = "md5"
    /\ hash_fails = {}
    /\ run = 1

RelocateIdle ==
    /\ rfs = [at |-> <<>>, dirs |-> {}]
    /\ rname = <<>>
    /\ sources = {}
    /\ came_from = <<>>
    /\ last_call = NoCallYet

ScanIdle ==
    /\ sfs = [at |-> <<>>, dirs |-> {}]
    /\ scan = "idle"
    /\ candidates = {}

TimeshiftIdle ==
    /\ tfs = [at |-> <<>>, dirs |-> {}]
    /\ tfs0 = tfs
    /\ targs = <<>>
    /\ tdry_run = FALSE
    /\ tpc = "idle"
    /\ tret = "not returned"
    /\ files_to_process = <<>>
    /\ next_file = 0
    /\ updated_count = 0
    /\ no_tags_count = 0
    /\ error_count = 0
    /\ originals_moved_count = 0
    /\ tally = <<>>
    /\ shifted = {}
    /\ oracle_started = "no"
    /\ oracle_calls = {}

PairIdle ==
    /\ pfs = [at |-> <<>>, dirs |-> {}]
    /\ pfs0 = pfs
    /\ ptags = <<>>
    /\ pdry_run = FALSE
    /\ ppc = "idle"
    /\ raw_files = <<>>
    /\ next_raw = 0
    /\ pair_calls = <<>>
    /\ pairs_found_by_name = 0
    /\ pairs_verified = 0
    /\ jpgs_moved = 0

RaceIdle ==
    /\ qfs = [at |-> <<>>, dirs |-> {}]
    /\ qname = <<>>
    /\ callers = {}
    /\ locking = FALSE
    /\ lock = 0
    /\ qpc = <<>>
    /\ qdest = <<>>
    /\ qret = <<>>

GeotagRun == InitGeotag /\ DedupIdle /\ RelocateIdle /\ ScanIdle /\ TimeshiftIdle /\ PairIdle /\ RaceIdle

SpecGeotag == GeotagRun /\ [][NextGeotag]_vars

DedupRun == InitDedup /\ GeotagIdle /\ RelocateIdle /\ ScanIdle /\ TimeshiftIdle /\ PairIdle /\ RaceIdle

SpecDedup == DedupRun /\ [][NextDedup]_vars
SpecDedupTwice == DedupRun /\ [][NextDedupTwice]_vars

RelocateRun == InitRelocate /\ GeotagIdle /\ DedupIdle /\ ScanIdle /\ TimeshiftIdle /\ PairIdle /\ RaceIdle

SpecRelocate == RelocateRun /\ [][NextRelocate]_vars

ScanRun == InitScan /\ GeotagIdle /\ DedupIdle /\ RelocateIdle /\ TimeshiftIdle /\ PairIdle /\ RaceIdle

SpecScan == ScanRun /\ [][NextScan]_vars

TimeshiftRun == InitTimeshift /\ GeotagIdle /\ DedupIdle /\ RelocateIdle /\ ScanIdle /\ PairIdle /\ RaceIdle

SpecTimeshift == TimeshiftRun /\ [][NextTimeshift]_vars

PairRun ==
    InitPair /\ GeotagIdle /\ DedupIdle /\ RelocateIdle /\ ScanIdle /\ TimeshiftIdle
        /\ RaceIdle

SpecPair == PairRun /\ [][NextPair]_vars

RaceRun ==
    InitRace /\ GeotagIdle /\ DedupIdle /\ RelocateIdle /\ ScanIdle /\ TimeshiftIdle
        /\ PairIdle

SpecRace == RaceRun /\ [][NextRace]_vars

\* ======================================================================
\* Properties of handle_geotag
\* ======================================================================
\* The file that was at `path` when the phase listed by-date.
GeoFile(path) == CHOOSE f \in DOMAIN all_files : all_files[f] = path

\* The path the move into last-gps gives a by-date file.
InLastGps(path) == last_gps_dir \o path

\* The terminal states of a file: AlreadyTagged and TaggedPass1 (GPS tag,
\* under by-date), TaggedPass2 (GPS tag, under last-gps), Untaggable (no GPS
\* tag, under no-gps).  Any other file is pending.
GeoTerminal(f) ==
    \/ gps[f] /\ Under(gfs.at[f], target_dir)
    \/ gps[f] /\ Under(gfs.at[f], last_gps_dir)
    \/ ~gps[f] /\ Under(gfs.at[f], no_gps_dir)

\* C1 (as claimed): when handle_geotag has completed a run that is not a dry
\* run and in which the oracle started for every query, every file that was
\* under by-date is in a terminal state: none is left without a GPS tag
\* outside no-gps, even if a tag-read chunk or a move failed.
C1_NoFilePending ==
    (gpc = "done" /\ ~gdry_run /\ ~oracle_down)
        => \A f \in DOMAIN gfs.at : GeoTerminal(f)

\* C2 (as claimed): once the move loop after a pass whose write call raised
\* is over, no file of that batch that still lacks a GPS tag is where it was
\* before the pass: a pass-1 file is under last-gps and in the pass-2 batch,
\* a pass-2 file is under no-gps.
C2_WriteFailureAdvances ==
    /\ (gpc = "pass2" /\ pass1_call.raised)
          => \A i \in DOMAIN pass1_call.batch :
               LET path == pass1_call.batch[i]
               IN ~gps[GeoFile(path)]
                    => /\ gfs.at[GeoFile(path)] = InLastGps(path)
                       /\ InLastGps(path) \in Range(files_in_last_gps)
    /\ (gpc = "done" /\ pass2_call.raised)
          => \A i \in DOMAIN pass2_call.batch :
               LET f == CHOOSE g \in DOMAIN all_files :
                            InLastGps(all_files[g]) = pass2_call.batch[i]
               IN ~gps[f] => Under(gfs.at[f], no_gps_dir)

\* The files the re-query after pass 1 reported as lacking GPS: they were in
\* the pass-1 batch, and (checked when the re-query has just been made) they
\* carry no GPS tag.
RequeryReportedNoGps ==
    /\ Range(files_for_pass2) \subseteq Range(files_to_geotag_pass1)
    /\ gpc = "pass2" => \A i \in DOMAIN files_for_pass2 : ~gps[GeoFile(files_for_pass2[i])]

\* No file classified AlreadyTagged is in a write batch, in the final
\* re-query, or moved.
AlreadyTaggedUntouched ==
    \A i \in DOMAIN already_tagged :
        /\ already_tagged[i] \notin Range(pass1_call.batch)
        /\ InLastGps(already_tagged[i]) \notin
               Range(pass2_call.batch) \cup Range(final_requery)
        /\ GeoFile(already_tagged[i]) \notin moved
        /\ gfs.at[GeoFile(already_tagged[i])] = already_tagged[i]

\* The pass-2 batch and the final re-query hold only last-gps destinations
\* of files the re-query reported as lacking GPS.
Pass2BatchFromRequery ==
    Range(pass2_call.batch) \cup Range(final_requery) \cup Range(files_in_last_gps)
        \subseteq {InLastGps(files_for_pass2[i]) : i \in DOMAIN files_for_pass2}

\* C3 (as claimed): ... and every file of the pass-2 batch and of the final
\* re-query was relocated to last-gps.
C3_Pass2BatchRelocated ==
    \A i \in DOMAIN final_requery :
        \E f \in moved : InLastGps(all_files[f]) = final_requery[i]

\* C3 (amended): a file classified AlreadyTagged is never in a write batch
\* nor moved; the pass-2 write batch and the final re-query hold only the
\* last-gps destinations the relocator returned for files that the re-query
\* after pass 1 reported as lacking GPS, and outside a dry run these files
\* were relocated to last-gps.
C3_BatchesOnlyShrink ==
    /\ AlreadyTaggedUntouched
    /\ RequeryReportedNoGps
    /\ Pass2BatchFromRequery
    /\ ~gdry_run => C3_Pass2BatchRelocated

\* A run that is not a dry run has finished with an already tagged file left
\* alone, a file tagged in pass 1 left under by-date, and a file that went
\* through the pass-2 write call and the final re-query.
C3_Witness ==
    /\ gpc = "done" /\ ~gdry_run
    /\ already_tagged # <<>>
    /\ pass2_call.made /\ final_requery # <<>>
    /\ \E i \in DOMAIN files_to_geotag_pass1 :
          /\ files_to_geotag_pass1[i] \notin Range(files_for_pass2)
          /\ gps[GeoFile(files_to_geotag_pass1[i])]

\* The initial GPS query (line 707) has returned and no write call has
\* changed a tag since.
InitialQueryAnswered ==
    gpc \notin {"idle", "preflight", "rejected", "start"}
        /\ all_files # <<>> /\ ~pass1_call.made /\ ~pass2_call.made

\* No file is in both lists of the initial query, and when the oracle
\* started a file is in the list that its tag says.
C22_ListsDisjointAndTruthful ==
    InitialQueryAnswered =>
        /\ Range(already_tagged) \cap Range(files_to_geotag_pass1) = {}
        /\ ~oracle_down =>
              /\ \A p \in Range(already_tagged) : gps[FileAt(gfs, p)]
              /\ \A p \in Range(files_to_geotag_pass1) : ~gps[FileAt(gfs, p)]

\* C22: _get_files_without_gps returns a partition of its input: every input
\* file is in exactly one list, in the with-GPS list only if the oracle
\* reported a GPS latitude for it and in the without-GPS list only if the
\* oracle answered for it without one, also when a chunk read fails or the
\* oracle cannot be started.
C22_GpsClassificationPartition ==
    InitialQueryAnswered =>
        /\ \A i \in DOMAIN all_files :
              Cardinality({k \in DOMAIN already_tagged : already_tagged[k] = all_files[i]})
                + Cardinality({k \in DOMAIN files_to_geotag_pass1 :
                                  files_to_geotag_pass1[k] = all_files[i]}) = 1
        /\ \A p \in Range(already_tagged) : ~oracle_down /\ gps[FileAt(gfs, p)]
        /\ \A p \in Range(files_to_geotag_pass1) : ~gps[FileAt(gfs, p)]

\* ======================================================================
\* Properties of handle_dedup
\* ======================================================================
\* The file that was at `path` when handle_dedup was called.
DedupFile(path) == CHOOSE f \in DOMAIN dfs0.at : dfs0.at[f] = path

Records == Range(file_data)

\* The scanned files with the size and the checksum of r.
IdentityGroup(r) == {q \in Records : q.size = r.size /\ q.checksum = r.checksum}

\* The member of a group whose path comes first.
FirstByPath(group) ==
    CHOOSE r \in group : \A q \in group : q = r \/ PathLess(r.path, q.path)

HereNow(r) == dfs.at[DedupFile(r.path)]

C5_Orthogonality ==
    dpc = "done" =>
        LET conflicts == {n \in {r.name : r \in Records} :
                             \E r, q \in Records :
                                 r.name = n /\ q.name = n /\ r.checksum # q.checksum}
            duplicates == {r.path : r \in {q \in Records :
                             \E o \in Records :
                                 /\ o # q
                                 /\ o.size = q.size /\ o.checksum = q.checksum
                                 /\ PathLess(o.path, q.path)}}
        IN /\ {report_content[k].name : k \in DOMAIN report_content} = conflicts
           /\ Len(report_content) = Cardinality(conflicts)
           /\ {dup_log[k].dup : k \in DOMAIN dup_log} = duplicates
           /\ Len(dup_log) = Cardinality(duplicates)
           /\ \A r, q \in Records :
                 (Cardinality(Records) = 2 /\ r.name = q.name /\ r.checksum # q.checksum)
                     => Len(report_content) = 1 /\ dup_log = <<>>
           /\ \A r, q \in Records :
                 (Cardinality(Records) = 2 /\ r.name # q.name /\ r.checksum = q.checksum)
                     => Len(dup_log) = 1 /\ report_content = <<>>

\* A run has reported one conflict and one duplicate whose name differs from
\* the name of the file it duplicates.
C5_Witness ==
    /\ dpc = "done"
    /\ Len(report_content) = 1
    /\ Len(dup_log) = 1
    /\ dup_log[1].dup[Len(dup_log[1].dup)] # dup_log[1].original[Len(dup_log[1].original)]

\* C6 (as claimed): the duplicates with their kept members, in the order of
\* the loop, and the conflict report are the same for every order in which
\* the scan can deliver the same files.
C6_OrderIndependent ==
    dpc = "done" =>
        \A order \in WalkOrders(dfs0, DedupScanned(dfs0, {workspace_dir, trash_dir})
                                           \ hash_fails) :
            LET data == [i \in DOMAIN order |-> FileInfo(dfs0, content, order[i])]
            IN /\ [k \in DOMAIN dup_log |->
                      [dup |-> dup_log[k].dup, original |-> dup_log[k].original]]
                    = DuplicatePlan(data)
               /\ report_content = ReportContent(data)

\* The files the scan of this call walks over.
FilesToScan == DedupScanned(dfs0, {workspace_dir, trash_dir})

\* A file whose stat or read failed has no record, is where it was and is in
\* no duplicate entry and no report line; every other scanned file has a
\* record.
C15_FailedFilesLeftOut ==
    dpc \in {"move", "report", "done"} =>
        /\ {r.path : r \in Records} = {dfs0.at[f] : f \in FilesToScan \ hash_fails}
        /\ \A f \in hash_fails :
              /\ dfs.at[f] = dfs0.at[f]
              /\ \A k \in DOMAIN dup_log :
                    dfs0.at[f] \notin {dup_log[k].dup, dup_log[k].original}
              /\ \A k \in DOMAIN report_content :
                    \A i \in DOMAIN report_content[k].lines :
                        report_content[k].lines[i].path # dfs0.at[f]

\* C15: a file that cannot be hashed does not block dedup: it is left out of
\* the groupings, never moved or reported, every other scanned file is
\* processed, and no exception leaves _get_file_hash, for every file and
\* every configured algorithm name.
C15_UnhashableFilesDoNotBlock ==
    /\ C15_FailedFilesLeftOut
    /\ dpc # "raised"

\* C18: with dry_run set handle_dedup changes nothing in the file system:
\* every file and directory is as it was when handle_dedup was called, and
\* so is the conflict report of an earlier run.
C18_DryRunChangesNothing ==
    ddry_run => dfs = dfs0 /\ report_file = report_file0

\* C19: after a call outside a dry run in which every move succeeded no two
\* files outside the workspace and the trash have the same (size, checksum),
\* and a second call moves no file and leaves the file system and the
\* conflict report as the first call left them.
C19_DedupIdempotent ==
    /\ (/\ run = 1 /\ dpc = "done" /\ ~ddry_run
        /\ \A k \in DOMAIN dup_log : dup_log[k].os = "ok")
          => \A f, g \in DOMAIN dfs.at :
                (/\ f # g
                 /\ ~Under(dfs.at[f], trash_dir) /\ ~Under(dfs.at[g], trash_dir)
                 /\ ~Under(dfs.at[f], workspace_dir) /\ ~Under(dfs.at[g], workspace_dir))
                    => <<SizeOf(content[f]), ChecksumOf(content[f])>>
                         # <<SizeOf(content[g]), ChecksumOf(content[g])>>
    /\ (run = 2 /\ dpc = "done")
          => dfs = dfs0 /\ report_file = report_file0 /\ dup_log = <<>>

\* ======================================================================
\* Properties of the relocators
\* ======================================================================

\* the files _move_file_robustly has put into the target directory
Landed == {g \in sources : rfs.at[g] # Gone /\ Under(rfs.at[g], flat_target)}

\* the target directory held a file of the base name before the first call
OccupiedAtStart == Len(rfs.at) > Cardinality(sources)

\* new_name is name with the two-digit counter k put in front of a dotted
\* suffix of name, or at its end; for k = 0 it is name itself.
CounterInserted(name, new_name, k) ==
    IF k = 0 THEN new_name = name
    ELSE \E i \in 0..Len(name) :
            /\ i = Len(name) \/ name[i + 1] = "."
            /\ new_name = SubSeq(name, 1, i) \o <<"-">> \o Format02d(k)
                              \o SubSeq(name, i + 1, Len(name))

LastCallMoved == last_call.op # "none" /\ ~last_call.dry_run /\ last_call.ret # None

\* C7: non-dry-run calls of _move_file_robustly that move distinct files of
\* one base name into one target directory never overwrite a file, and in a
\* target that held no such file the k-th file (k = 0, 1, 2, ...) lands at
\* name, name-01, name-02, ...: the base name with the two-digit counter in
\* front of the extension.
C7_CollisionSafeRename ==
    (LastCallMoved /\ last_call.op = "flat") =>
        /\ \A g \in DOMAIN rfs.at : rfs.at[g] # Gone
        /\ rfs.at[last_call.f] = last_call.ret
        /\ ~OccupiedAtStart =>
               /\ Parent(last_call.ret) = flat_target
               /\ CounterInserted(rname, last_call.ret[Len(last_call.ret)],
                                  Cardinality(Landed) - 1)

\* C21: when the destination exists, only the last suffix of the name is the
\* extension: the counter is put in immediately before the last suffix
\* (a.t.j becomes a.t-01.j), for every value of the counter.
C21_CounterBeforeLastSuffix ==
    (LastCallMoved /\ last_call.op = "flat") =>
        LET new_name == last_call.ret[Len(last_call.ret)]
            extension == Suffix(rname)
            stem == SubSeq(rname, 1, Len(rname) - Len(extension))
        IN new_name # rname =>
               \E counter \in 1..(MaxMoveFiles + 1) :
                   new_name = stem \o <<"-">> \o Format02d(counter) \o extension

\* C8: for each relocator and each file system state, the destination a call
\* with dry_run=True returns is the destination the call with dry_run=False
\* moves the file to.
C8_DryRunEquivalence ==
    LastCallMoved => last_call.dry_ret = last_call.ret

\* C9: _move_file_preserving_structure(src, H, base) moves src to
\* H / src.relative_to(base) and creates the missing directories; the reverse
\* call (dest root base, base H) puts the file back where the forward call
\* took it from.
C9_RoundTrip ==
    /\ (LastCallMoved /\ last_call.op = "forward") =>
          /\ last_call.ret = holding_root \o <<<<ToString(last_call.f)>>, rname>>
          /\ rfs.at[last_call.f] = last_call.ret
          /\ holding_root \o <<<<ToString(last_call.f)>>>> \in rfs.dirs
          /\ holding_root \in rfs.dirs
    /\ (LastCallMoved /\ last_call.op = "reverse") =>
          /\ last_call.ret = came_from[last_call.f]
          /\ rfs.at[last_call.f] = came_from[last_call.f]
          /\ last_call.ret = base_dir \o <<<<ToString(last_call.f)>>, rname>>

\* a file was moved into the holding root and back
C9_Witness ==
    /\ LastCallMoved
    /\ last_call.op = "reverse"
    /\ last_call.source_path = holding_root \o <<<<ToString(last_call.f)>>, rname>>
    /\ rfs.at[last_call.f] = base_dir \o <<<<ToString(last_call.f)>>, rname>>
    /\ came_from[last_call.f] = rfs.at[last_call.f]

\* ======================================================================
\* Properties of the scans
\* ======================================================================

\* the directories the scan that was made is to leave out
ExcludedBy(s) ==
    CASE s = "dedup" -> {workspace_dir, trash_dir}
      [] s = "timeshift" -> special_dirs
      [] s = "backup" -> special_dirs
      [] s = "pair-jpegs" -> {extra_jpgs_dir}
      [] s = "by-date" -> ByDateExcludeDirs(sfs)
      [] s = "move-no-gps" -> {non_gps_dir}
      [] OTHER -> {}

\* C10: in every phase scan (dedup, timeshift and backup, pair-jpegs,
\* by-date) no file at any depth below an excluded directory is put in the
\* candidate list.
C10_SubtreeExclusionComplete ==
    \A path \in candidates : \A ex_dir \in ExcludedBy(scan) : ~Under(path, ex_dir)

\* the file names the scan that was made is looking for
NameWanted(s, path) ==
    CASE s = "timeshift" -> ~EndsWith(Name(path), Original) /\ ~EndsWith(Name(path), Tmp)
      [] s = "backup" -> EndsWith(Name(path), Original)
      [] s = "pair-jpegs" -> \E ext \in raw_ext : EndsWith(Lower(Name(path)), ext)
      [] s = "by-date" -> ~(Parent(path) = cwd /\ Name(path) \in ScriptFiles)
      [] s = "move-no-gps" -> Lower(Suffix(Name(path))) \in photo_ext
      [] OTHER -> TRUE

\* C11: a file the scan is looking for is left out of the candidate list
\* only if its path lies under one of the excluded directories; a file in a
\* directory next to an excluded one whose name merely begins with its name
\* (b2 next to b, _w2 next to _w) is listed.
C11_SubtreeExclusionExact ==
    scan \notin {"none", "idle"} =>
        \A f \in Files(sfs) :
            (/\ NameWanted(scan, sfs.at[f])
             /\ \A ex_dir \in ExcludedBy(scan) : ~Under(sfs.at[f], ex_dir))
                => sfs.at[f] \in candidates

\* ======================================================================
\* Properties of handle_timeshift
\* ======================================================================

\* C12: when the loop over files_to_process of a run that is not a dry run is
\* over and the backup files are not handled yet, every file of
\* files_to_process was counted exactly once, whatever the oracle gave for it
\* and whether its move worked or not, so that updated_count + no_tags_count
\* + error_count is the number of files.
C12_TimeshiftAccounting ==
    (tpc = "backups" /\ ~tdry_run) =>
        /\ \A i \in DOMAIN files_to_process : tally[i] = 1
        /\ updated_count + no_tags_count + error_count = Len(files_to_process)

\* C13: when the metadata oracle cannot be started, handle_timeshift stops
\* without moving or modifying any file: from the failed start on, every
\* file is where it was when handle_timeshift was called, no file was
\* shifted and no file was sent to the oracle.
C13_OracleUnavailableIsFatal ==
    oracle_started = "failed" =>
        /\ tfs.at = tfs0.at
        /\ shifted = {}
        /\ oracle_calls = {}

\* A timezone of the form [+-]HH:MM: a sign, two digits, a colon, two
\* digits, and nothing else.
WellFormedTimezone(s) ==
    /\ Len(s) = 6
    /\ s[1] \in {"+", "-"}
    /\ s[4] = ":"
    /\ \A i \in {2, 3, 5, 6} : s[i] \in Digits

InvalidGeotagInput ==
    \/ gargs.gpx_dir \notin gfs.dirs
    \/ ~WellFormedTimezone(gargs.timezone)
    \/ target_dir \notin gfs.dirs

\* C14: handle_geotag with a missing GPX directory, a timezone not of the
\* form [+-]HH:MM or a missing by-date directory returns 1 and has not
\* created last-gps or no-gps, called the oracle or moved a file.
C14_InvalidInputRejected ==
    (gpc # "preflight" /\ gargs # <<>> /\ InvalidGeotagInput) =>
        /\ gpc = "rejected"
        /\ last_gps_dir \notin gfs.dirs
        /\ no_gps_dir \notin gfs.dirs
        /\ ~pass1_call.made
        /\ ~pass2_call.made
        /\ moved = {}

\* ======================================================================
\* Properties of handle_pair_jpegs
\* ======================================================================

IsRaw(path) == \E ext \in raw_ext : EndsWith(Lower(Name(path)), ext)

\* The oracle was asked about the RAW file g and the JPEG f and returned the
\* tags of both.
TagsReturned(g, f) ==
    \E k \in DOMAIN pair_calls :
        /\ pair_calls[k].raw = pfs0.at[g]
        /\ pair_calls[k].jpg = pfs0.at[f]
        /\ pair_calls[k].outcome \in {"verified", "not a pair", "no date"}

\* The move of f is covered by a RAW file of its stem, whatever the camera
\* models are: the tags were returned and the timestamps parse and differ by
\* at most one second.
C16_TimestampsGuardTheMove ==
    \A f \in DOMAIN pfs.at :
        pfs.at[f] # pfs0.at[f] =>
            /\ ~IsRaw(pfs0.at[f])
            /\ Under(pfs.at[f], extra_jpgs_dir)
            /\ \E g \in DOMAIN pfs0.at :
                  /\ IsRaw(pfs0.at[g])
                  /\ Parent(pfs0.at[g]) = Parent(pfs0.at[f])
                  /\ Stem(Name(pfs0.at[g])) = Stem(Name(pfs0.at[f]))
                  /\ TagsReturned(g, f)
                  /\ ptags[g].date # DateUnreadable /\ ptags[f].date # DateUnreadable
                  /\ Abs(ptags[g].date - ptags[f].date) <= 1
                  /\ ptags[g].model = ptags[f].model

\* C16: a JPEG is relocated into _extra_jpgs only if the oracle returned, for
\* the RAW file of its stem and for it, camera-model strings that are equal
\* and timestamps that parse and differ by at most one second; the RAW file
\* is never moved.
C16_PairVerificationGuardsMove ==
    /\ C16_TimestampsGuardTheMove
    /\ \A f \in DOMAIN pfs.at :
          pfs.at[f] # pfs0.at[f] =>
              \E g \in DOMAIN pfs0.at :
                  /\ IsRaw(pfs0.at[g])
                  /\ Stem(Name(pfs0.at[g])) = Stem(Name(pfs0.at[f]))
                  /\ ptags[g].model # NoModel /\ ptags[f].model # NoModel
                  /\ ptags[g].model = ptags[f].model

\* C17: for each RAW file at most one JPEG of its stem is sent to the oracle:
\* once a JPEG of the stem has been found no later extension is tried,
\* whether or not the tags can be read and the pair is verified.
C17_FirstHitOnly ==
    \A j, k \in DOMAIN pair_calls :
        pair_calls[j].raw = pair_calls[k].raw => j = k

\* ======================================================================
\* Properties of concurrent calls of _move_file_robustly
\* ======================================================================

\* a file was replaced by the move of another call
Overwritten == \E f \in DOMAIN qfs.at : qfs.at[f] = Gone

\* C20: two calls that interleave without a lock can select the same
\* destination, and then one file replaces the other; when the calls are
\* serialized no file is ever replaced, and the files of the calls that
\* moved are in the target directory under distinct names.
C20_SerializedCallsNeverOverwrite ==
    locking =>
        /\ ~Overwritten
        /\ \A p, q \in callers :
              (p # q /\ qpc[p] = "returned" /\ qpc[q] = "returned"
                 /\ qret[p] # None /\ qret[q] # None)
                  => /\ qfs.at[p] = qret[p] /\ qfs.at[q] = qret[q]
                     /\ qret[p] # qret[q]

\* Two calls without a lock have selected the same destination, both have
\* moved, and the file of one of them is gone.
C20_Witness ==
    /\ ~locking
    /\ \E p, q \in callers :
          /\ p # q
          /\ qpc[p] = "returned" /\ qpc[q] = "returned"
          /\ qdest[p] = qdest[q]
          /\ qret[p] # None /\ qret[q] # None
          /\ qfs.at[p] = Gone \/ qfs.at[q] = Gone

\* Two serialized calls have moved their files into the target directory.
C20_SerializedBothMoved ==
    /\ locking
    /\ \E p, q \in callers :
          /\ p # q
          /\ qret[p] # None /\ qret[q] # None

\* ======================================================================
\* Properties of _calculate_timeshift_offset
\* ======================================================================

\* sgn * (D * 86400 + X) is the total of `days` days and `rest` seconds
SameTotal(sgn, D, X, days, rest) ==
    LET k == sgn * D - days
    IN k \in (0 - 3)..3 /\ k * 86400 = rest - sgn * X

\* sign + "0:0:D H:M:S"
OffsetString(sgn, D, H, M, S) ==
    (IF sgn = 1 THEN <<"+", "=">> ELSE <<"-", "=">>) \o <<"0", ":", "0", ":">>
        \o Decimal(D) \o <<" ">> \o Decimal(H) \o <<":">> \o Decimal(M) \o <<":">>
        \o Decimal(S)

\* C23: without --offset the result is None when the four units are zero,
\* "0" when they are not all zero and add up to zero seconds, and otherwise
\* sign + "0:0:D H:M:S" with H < 24, M < 60, S < 60 and D days H:M:S the
\* absolute value of the total, "+=" for a positive and "-=" for a negative
\* total; --offset with a unit that is not zero gives None; and on "0"
\* handle_timeshift returns without touching a file.
C23_TimeshiftOffsetArithmetic ==
    targs # <<>> =>
        LET r == CalculateTimeshiftOffset(targs)
            rest == targs.hours * 3600 + targs.minutes * 60 + targs.seconds
            absdays == IF targs.days < 0 THEN 0 - targs.days ELSE targs.days
        IN /\ (targs.offset = None /\ ~AnyUnit(targs)) => r = None
           /\ (targs.offset = None /\ AnyUnit(targs)) =>
                 IF SameTotal(1, 0, 0, targs.days, rest) THEN r = <<"0">>
                 ELSE \E sgn \in {1, 0 - 1} :
                      \E D \in {d \in (absdays - 3)..(absdays + 3) : d >= 0} :
                      \E H \in 0..23 :
                        LET k == sgn * D - targs.days
                            X == sgn * (rest - k * 86400)
                        IN /\ k \in (0 - 3)..3
                           /\ X \in (H * 3600)..(H * 3600 + 3599)
                           /\ D > 0 \/ X > 0
                           /\ SameTotal(sgn, D, X, targs.days, rest)
                           /\ r = OffsetString(sgn, D, H, (X % 3600) \div 60, X % 60)
           /\ (targs.offset \notin {None, <<>>} /\ AnyUnit(targs)) => r = None
           /\ (tpc = "done" /\ r = <<"0">>) => tret = "0" /\ tfs = tfs0

====
